---------------------------- MODULE Spec2Model ----------------------------
(***************************************************************************)
(* Model of the parental-control dashboard server (src/requirements/app.py):*)
(* device-key validation, ledger verification, the /api/sync handler and   *)
(* the per-device JSON files under DATA_DIR.                                *)
(*                                                                         *)
(* Text is a sequence of tokens (a token stands for one or more            *)
(* characters).  A JSON scalar is a record [ty, s]: its JSON type and its   *)
(* text, so that the number 1 and the string "1" are different values that  *)
(* format to the same text.                                                *)
(***************************************************************************)
EXTENDS Integers, Sequences, FiniteSets, TLC

\* ------------------------------------------------------------------ bounds
MaxLen == 3        \* blocks in a ledger
MaxTamper == 2     \* edits to the device's ledger over a run
MaxCorrupt == 1    \* edits to the ledgers a device submits to /api/sync
MaxClock == 2      \* readings of the clock over a run
NThreads == 2      \* requests the threaded server handles at a time
MaxSegments == 19  \* segments of a token handed to validate_device_key
MaxLong == 150     \* blocks in the longest ledger handed to the aggregator
MaxShort == 2      \* days in a series of freely chosen days
MaxDays == 20      \* days in the longest series handed to the heatmap
MaxPipe == 2       \* blocks in the ledgers the intelligence endpoints work on
MaxSteps == 4      \* readings of the clock over a run of the endpoints

\* ------------------------------------------------------------ JSON scalars
JStr(text) == [ty |-> "str", s |-> text]
JInt(text) == [ty |-> "int", s |-> text]
\* a key that the JSON object does not have
NoKey == [ty |-> "absent", s |-> <<>>]

Digits == <<"0", "1", "2", "3", "4", "5", "6", "7", "8", "9">>
\* str(n) for a one-digit n
Digit(n) == <<Digits[n + 1]>>

\* f"{v}": the text of a scalar; a number and a string with the same digits
\* format alike
Str(v) == v.s

\* ------------------------------------------------------------------ digest
Difficulty == 4

Fields ==
  {"index", "previousHash", "deviceId", "appName", "keyword", "timestamp",
   "nonce", "hash"}

\* app.py:94-96  f"{index}:{previousHash}:{deviceId}:{appName}:{keyword}:{timestamp}:{nonce}"
BlockString(b) ==
  LET data == Str(b.deviceId) \o <<":">> \o Str(b.appName) \o <<":">>
                \o Str(b.keyword) \o <<":">> \o Str(b.timestamp)
  IN  Str(b.index) \o <<":">> \o Str(b.previousHash) \o <<":">> \o data
        \o <<":">> \o Str(b.nonce)

Code(tok) ==
  CASE tok \in {"1", "4", "7", "k2", "a2", "d2"} -> 1
    [] tok \in {"2", "5", "8"} -> 2
    [] OTHER -> 0

CodeIs1(tok) == Code(tok) = 1
CodeIs2(tok) == Code(tok) = 2

\* the sum of the codes of the tokens of text
Weight(text) ==
  Len(SelectSeq(text, CodeIs1)) + 2 * Len(SelectSeq(text, CodeIs2))

\* how many '0' characters the digest of text starts with: Difficulty for one
\* text in three, fewer for the others
LeadingZeros(text) ==
  IF Weight(text) % 3 = 0 THEN Difficulty ELSE Weight(text) % 3

Zeros(n) == [i \in 1..n |-> "0"]

\* hashlib.sha256(text.encode()).hexdigest(): an ideal hash.  The digest is
\* its run of leading zeros followed by a body that determines the text, so
\* two texts never share a digest.
Sha256Hex(text) == Zeros(LeadingZeros(text)) \o <<"#">> \o text

\* str.startswith('0000')
StartsWithZeros(text) ==
  /\ Len(text) >= Difficulty
  /\ \A i \in 1..Difficulty : text[i] = "0"

\* ------------------------------------------------------------ device keys
\* app.py:52  BYPASS_KEY = os.getenv('BYPASS_KEY', '1234')
BYPASS_KEY == <<"1", "2", "3", "4">>

HexChars ==
  {"0", "1", "2", "3", "4", "5", "6", "7", "8", "9",
   "a", "b", "c", "d", "e", "f", "A", "B", "C", "D", "E", "F"}

\* str.split('-'): the pieces between the separators; n separators give
\* n + 1 pieces, empty ones included
Split(text, sep) ==
  LET IsSep(i) == text[i] = sep
      \* the positions of the separators, in order
      at == SelectSeq([i \in 1..Len(text) |-> i], IsSep)
      from(n) == IF n = 1 THEN 1 ELSE at[n - 1] + 1
      to(n) == IF n = Len(at) + 1 THEN Len(text) ELSE at[n] - 1
  IN  [n \in 1..(Len(at) + 1) |-> SubSeq(text, from(n), to(n))]

\* mutant: the segments' characters are checked, their number is not
validate_device_key_NoLength(device_key) ==
  IF device_key = BYPASS_KEY THEN TRUE
  ELSE LET key_segments == Split(device_key, "-")
       IN  IF Len(key_segments) # 18 THEN FALSE
           ELSE \A n \in 1..Len(key_segments) :
                  \A j \in 1..Len(key_segments[n]) :
                    key_segments[n][j] \in HexChars

\* app.py:54-73
validate_device_key(device_key) ==
  IF device_key = BYPASS_KEY THEN TRUE
  ELSE LET key_segments == Split(device_key, "-")
       IN  IF Len(key_segments) # 18 THEN FALSE
           ELSE \A n \in 1..Len(key_segments) :
                  /\ Len(key_segments[n]) = 8
                  /\ \A j \in 1..8 : key_segments[n][j] \in HexChars

\* the key texts requests carry, by name
Seg(c, n) == [j \in 1..n |-> c]
RECURSIVE Join(_)
Join(segs) ==
  IF Len(segs) = 1 THEN segs[1] ELSE segs[1] \o <<"-">> \o Join(Tail(segs))

KeyText(id) ==
  CASE id = "K1" -> Join([n \in 1..18 |-> Seg("a", 8)])
    [] id = "K2" -> Join([n \in 1..18 |-> <<"0", "F", "a", "9", "B", "c", "1", "E">>])
    [] id = "BYPASS" -> BYPASS_KEY
    [] id = "K17" -> Join([n \in 1..17 |-> Seg("a", 8)])
    [] id = "K19" -> Join([n \in 1..19 |-> Seg("a", 8)])
    [] id = "SEG7" -> Join([n \in 1..18 |-> IF n = 5 THEN Seg("a", 7) ELSE Seg("a", 8)])
    [] id = "SEG9" -> Join([n \in 1..18 |-> IF n = 18 THEN Seg("a", 9) ELSE Seg("a", 8)])
    [] id = "NONHEX" -> Join([n \in 1..18 |-> IF n = 1 THEN Seg("g", 8) ELSE Seg("a", 8)])
    [] id = "EMPTYSEG" -> Join([n \in 1..18 |-> IF n = 2 THEN <<>> ELSE Seg("a", 8)])
    [] OTHER -> <<>>

KeyIds ==
  {"K1", "K2", "BYPASS", "K17", "K19", "SEG7", "SEG9", "NONHEX", "EMPTYSEG",
   "EMPTY"}

\* validate_device_key on each of these keys
KeyOk == [id \in KeyIds |-> validate_device_key(KeyText(id))]

\* --------------------------------------------------- ledger verification
\* mutant: the genesis sentinel is not checked
GenesisOk_Unchecked(blocks) == TRUE

\* app.py:81  blocks[0].get('previousHash') != '0'
GenesisOk(blocks) == blocks[1].previousHash = JStr(<<"0">>)

\* mutant: the link to the previous block is not checked
LinkOk_Unchecked(current, previous) == TRUE

\* app.py:90  current['previousHash'] != previous['hash']
LinkOk(current, previous) == current.previousHash = previous.hash

\* app.py:94-99  the digest recomputed from the block's fields is its hash
HashOk(current) ==
  /\ current.hash.ty = "str"
  /\ Sha256Hex(BlockString(current)) = Str(current.hash)

\* mutant: one more zero is asked for than the difficulty
PowOk_Longer(current) ==
  /\ Len(Str(current.hash)) > Difficulty
  /\ \A i \in 1..(Difficulty + 1) : Str(current.hash)[i] = "0"

\* app.py:103  current['hash'].startswith('0000')
PowOk(current) == StartsWithZeros(Str(current.hash))

\* one pass of the loop body, app.py:86-104: "ok", or what ends the loop.  A
\* subscript of a key the block does not have raises KeyError where the code
\* reads it.
CheckBlock(current, previous) ==
  IF current.previousHash = NoKey \/ previous.hash = NoKey THEN "KeyError"
  ELSE IF ~LinkOk(current, previous) THEN "False"
  ELSE IF \E f \in Fields \ {"previousHash", "hash"} : current[f] = NoKey
       THEN "KeyError"
  ELSE IF current.hash = NoKey THEN "KeyError"
  ELSE IF ~HashOk(current) THEN "False"
  ELSE IF ~PowOk(current) THEN "False"
  ELSE "ok"

\* the first block of the loop's range, app.py:85  range(1, len(blocks)),
\* as a 1-based position
FirstChecked == 2

RECURSIVE VerifyFrom(_, _)
VerifyFrom(blocks, i) ==
  IF i > Len(blocks) THEN "True"
  ELSE LET r == CheckBlock(blocks[i], blocks[i - 1])
       IN  IF r = "ok" THEN VerifyFrom(blocks, i + 1) ELSE r

\* app.py:75-106; "True", "False", or "KeyError" when it raises
verify_blockchain_integrity(blocks) ==
  IF blocks = <<>> THEN "True"
  ELSE IF ~GenesisOk(blocks) THEN "False"
  ELSE VerifyFrom(blocks, FirstChecked)

\* ------------------------------------------------------------------ state
VARIABLES
  blocks,   \* the ledger the device holds and submits as blockchain_data.blocks
  edits,    \* how many edits the ledger has had
  files,    \* DATA_DIR: the content of <device_key>.json per key, or NoFile
  clock,    \* datetime.now(): it advances each time a handler reads it
  req,      \* the request /api/sync handled last with the files it found,
  resp,     \* and its response, until the device goes on
  verdict,  \* what verify_blockchain_integrity(blocks) gave, until blocks change
  pc,       \* where each server thread is in its handler
  job,      \* each thread's request: its key, the text it writes or read, its answer
  fd,       \* each writing thread's offset into its open file
  token,    \* the text handed to validate_device_key
  accepted, \* what validate_device_key(token) gave, until the token changes
  intel_files,  \* INTELLIGENCE_DIR: the profile in <device_key>_intelligence.json
  intelligence, \* what update_behavioral_data_from_blockchain returned last
  blockchain_data, \* the stored record it is handed: its blocks
  screen_time_data, \* the screenTimeData handed to _generate_sleep_time_heatmap
  heatmap_data,     \* the heatmap it wrote last, until the data change
  intelligence_template, \* intelligence_template.json: its policySettings
  reports_dir,  \* REPORTS_DIR: the names of the PDF files in it
  call,         \* the request an intelligence endpoint handled last, its answer
  done,         \* the requests answered with success so far, per key
  view          \* the read request handled last and what it was answered

vars ==
  <<blocks, edits, files, clock, req, resp, verdict, pc, job, fd, token,
    accepted, intel_files, intelligence, blockchain_data, screen_time_data,
    heatmap_data, intelligence_template, reports_dir, call, done, view>>
threadVars == <<pc, job, fd>>
keyVars == <<token, accepted>>
intelVars == <<intel_files, intelligence, blockchain_data>>
heatVars == <<screen_time_data, heatmap_data>>
\* the variables of the intelligence endpoints and of what they call
pipeVars == <<intelligence_template, reports_dir, call, done>>
endpointVars == <<heatVars, pipeVars, view>>

\* a file's content is a sequence of units [u, v]; no file, and an empty file
NoFile == <<[u |-> "ENOENT", v |-> <<>>]>>
EmptyFile == <<>>
NoReq == [data |-> <<>>, before |-> <<>>]
NoResp == [status |-> 0, error |-> "", violations_count |-> -1]
\* no intelligence file, and no profile returned yet; a profile p is <<p>>
NoProfile == <<>>
\* no request handled by an intelligence endpoint yet
NoCall == [op |-> "none", key |-> "none", body |-> "", status |-> 0]
\* no read request was handled yet
NoView ==
  [op |-> "none", key |-> "none", status |-> 0, total |-> -1,
   violations |-> <<>>, valid |-> "none"]

\* ------------------------------------------------------- the device's side
Nonces == {JInt(Digit(n)) : n \in 0..2}

\* the device's proof-of-work loop: the first nonce whose digest meets the
\* difficulty
MineNonce(b) ==
  LET met(n) ==
        StartsWithZeros(Sha256Hex(BlockString([b EXCEPT !.nonce = JInt(Digit(n))])))
  IN  JInt(Digit(CHOOSE n \in 0..2 : met(n) /\ \A m \in 0..(n - 1) : ~met(m)))

\* b with its nonce mined and its hash set to the digest
Sealed(b) ==
  LET m == [b EXCEPT !.nonce = MineNonce(b)]
  IN  [m EXCEPT !.hash = JStr(Sha256Hex(BlockString(m)))]

\* the next violation record of the device's chain
NewBlock(chain, keyword) ==
  Sealed([index |-> JInt(Digit(Len(chain))),
          previousHash |-> IF chain = <<>> THEN JStr(<<"0">>)
                           ELSE chain[Len(chain)].hash,
          deviceId |-> JStr(<<"d1">>),
          appName |-> JStr(<<"a1">>),
          keyword |-> JStr(<<keyword>>),
          timestamp |-> JInt(Digit(Len(chain) + 1)),
          nonce |-> JInt(Digit(0)),
          hash |-> NoKey])

\* a hash-like string that meets the difficulty and is no block's digest
FakeHash == JStr(Zeros(Difficulty) \o <<"f">>)

\* the values an edit can give field f of the block at position i: for a
\* number the string with the same digits and another number, for a hash
\* the sentinel, a made-up hash and the digest of the block as it stands
EditValues(chain, i, f) ==
  CASE f = "index" -> {JStr(Str(chain[i].index)), JInt(Digit(7))}
    [] f = "previousHash" -> {JStr(<<"0">>), FakeHash}
    [] f = "deviceId" -> {JStr(<<"d2">>)}
    [] f = "appName" -> {JStr(<<"a2">>)}
    [] f = "keyword" -> {JStr(<<"k2">>), NoKey}
    [] f = "timestamp" -> {JInt(Digit(9))}
    [] f = "nonce" -> {JInt(Digit(1)), JInt(Digit(2))}
    [] OTHER -> {FakeHash}
                  \cup (IF \A g \in Fields \ {"hash"} : chain[i][g] # NoKey
                        THEN {JStr(Sha256Hex(BlockString(chain[i])))} ELSE {})

\* the device records a violation and appends its block
Mine(keyword) ==
  /\ Len(blocks) < MaxLen
  /\ IF blocks = <<>> THEN TRUE ELSE blocks[Len(blocks)].hash # NoKey
  /\ blocks' = Append(blocks, NewBlock(blocks, keyword))
  /\ req' = NoReq
  /\ resp' = NoResp
  /\ verdict' = "none"
  /\ UNCHANGED <<endpointVars, edits, files, clock, threadVars, keyVars, intelVars>>

\* someone replaces one field of one block
Tamper(i, f, v) ==
  /\ f \in Fields
  /\ i \in 1..Len(blocks)
  /\ v # blocks[i][f]
  /\ blocks' = [blocks EXCEPT ![i][f] = v]
  /\ edits' = edits + 1
  /\ req' = NoReq
  /\ resp' = NoResp
  /\ verdict' = "none"
  /\ UNCHANGED <<endpointVars, files, clock, threadVars, keyVars, intelVars>>

\* someone redoes the proof of work of one block over its present fields
Remine(i) ==
  /\ i \in 1..Len(blocks)
  /\ \A f \in Fields \ {"hash", "nonce"} : blocks[i][f] # NoKey
  /\ Sealed(blocks[i]) # blocks[i]
  /\ blocks' = [blocks EXCEPT ![i] = Sealed(blocks[i])]
  /\ edits' = edits + 1
  /\ req' = NoReq
  /\ resp' = NoResp
  /\ verdict' = "none"
  /\ UNCHANGED <<endpointVars, files, clock, threadVars, keyVars, intelVars>>

\* the device gives block i another index and mines it under that index
Renumber(i, v) ==
  /\ i \in 1..Len(blocks)
  /\ \A f \in Fields \ {"hash", "nonce"} : blocks[i][f] # NoKey
  /\ v # blocks[i].index
  /\ blocks' = [blocks EXCEPT ![i] = Sealed([@ EXCEPT !.index = v])]
  /\ edits' = edits + 1
  /\ req' = NoReq
  /\ resp' = NoResp
  /\ verdict' = "none"
  /\ UNCHANGED <<endpointVars, files, clock, threadVars, keyVars, intelVars>>

\* the device starts over with an empty chain
Reset ==
  /\ blocks # <<>>
  /\ blocks' = <<>>
  /\ req' = NoReq
  /\ resp' = NoResp
  /\ verdict' = "none"
  /\ UNCHANGED <<endpointVars, edits, files, clock, threadVars, keyVars, intelVars>>

\* ------------------------------------------------------------ DATA_DIR
\* json.dump(storage_data, f): the text of the record in the order of its
\* keys: device_key and device_id, the blocks one by one, then last_sync,
\* app_version and integrity_verified
Dump(rec) ==
  <<[u |-> "head", v |-> <<rec.device_key, rec.device_id>>]>>
    \o [i \in 1..Len(rec.blocks) |-> [u |-> "block", v |-> <<rec.blocks[i]>>]]
    \o <<[u |-> "tail",
          v |-> <<rec.last_sync, rec.app_version, rec.integrity_verified>>]>>

\* json.load(f) succeeds: the content is one whole JSON object
LoadOk(content) ==
  /\ Len(content) >= 2
  /\ content[1].u = "head"
  /\ content[Len(content)].u = "tail"
  /\ \A i \in 2..(Len(content) - 1) : content[i].u = "block"

\* json.load(f)
Load(content) ==
  [device_key |-> content[1].v[1],
   device_id |-> content[1].v[2],
   blocks |-> [i \in 1..(Len(content) - 2) |-> content[i + 1].v[1]],
   last_sync |-> content[Len(content)].v[1],
   app_version |-> content[Len(content)].v[2],
   integrity_verified |-> content[Len(content)].v[3]]

\* mutant: every key is given the same file
device_file_Shared(device_key) == "K1"

\* app.py:145  device_file = DATA_DIR / f"{device_key}.json": the file of a key
device_file(device_key) == device_key

\* ------------------------------------------------------------ /api/sync
\* the keys /api/sync requests carry
SyncKeys == {"K1", "K17"}

\* the fields edited in the ledgers /api/sync is sent: a link, a hashed field
\* (changed or dropped) and the hash
SyncFields == {"previousHash", "keyword", "hash"}

\* the payloads of /api/sync, less the blocks
Requests ==
  {[device_key |-> k, has_key |-> TRUE, has_data |-> TRUE,
    app_version |-> JStr(<<"1.0.0">>)] :
     k \in SyncKeys}
    \cup {[device_key |-> "none", has_key |-> FALSE, has_data |-> TRUE,
           app_version |-> NoKey],
          [device_key |-> "K1", has_key |-> TRUE, has_data |-> FALSE,
           app_version |-> NoKey]}

\* mutant: the blocks are stored newest first, as the dashboard lists them
storage_data_Reversed(data, ledger, now) ==
  [device_key |-> data.device_key,
   device_id |-> JStr(<<"d1">>),
   blocks |-> [i \in 1..Len(ledger) |-> ledger[Len(ledger) + 1 - i]],
   last_sync |-> now,
   app_version |-> IF data.app_version = NoKey THEN JStr(<<"unknown">>)
                   ELSE data.app_version,
   integrity_verified |-> TRUE]

\* app.py:147-154
storage_data(data, ledger, now) ==
  [device_key |-> data.device_key,
   device_id |-> JStr(<<"d1">>),
   blocks |-> ledger,
   last_sync |-> now,
   app_version |-> IF data.app_version = NoKey THEN JStr(<<"unknown">>)
                   ELSE data.app_version,
   integrity_verified |-> TRUE]

\* mutant: the ledger is verified before the key is validated
Answer_VerifyFirst(data, ledger) ==
  LET verified == verify_blockchain_integrity(ledger)
  IN  IF ~data.has_key \/ ~data.has_data
      THEN [status |-> 400, error |-> "missing_fields", violations_count |-> -1]
      ELSE IF verified = "KeyError"
      THEN [status |-> 500, error |-> "KeyError", violations_count |-> -1]
      ELSE IF verified # "True"
      THEN [status |-> 400, error |-> "integrity_failed", violations_count |-> -1]
      ELSE IF ~KeyOk[data.device_key]
      THEN [status |-> 400, error |-> "invalid_key", violations_count |-> -1]
      ELSE [status |-> 200, error |-> "", violations_count |-> Len(ledger)]

\* what the handler answers, app.py:129-171
Answer(data, ledger) ==
  LET verified == verify_blockchain_integrity(ledger)
  IN  IF ~data.has_key \/ ~data.has_data
      THEN [status |-> 400, error |-> "missing_fields", violations_count |-> -1]
      ELSE IF ~KeyOk[data.device_key]
      THEN [status |-> 400, error |-> "invalid_key", violations_count |-> -1]
      ELSE IF verified = "KeyError"
      THEN [status |-> 500, error |-> "KeyError", violations_count |-> -1]
      ELSE IF verified # "True"
      THEN [status |-> 400, error |-> "integrity_failed", violations_count |-> -1]
      ELSE [status |-> 200, error |-> "", violations_count |-> Len(ledger)]

\* mutant: the new blocks are merged into the stored ones, position by position
WriteFile_Merge(fs, k, rec) ==
  LET old == IF fs[device_file(k)] # NoFile /\ LoadOk(fs[device_file(k)])
             THEN Load(fs[device_file(k)]).blocks ELSE <<>>
      merged == rec.blocks \o SubSeq(old, Len(rec.blocks) + 1, Len(old))
  IN  [fs EXCEPT ![device_file(k)] = Dump([rec EXCEPT !.blocks = merged])]

\* mutant: the file is opened for appending, so that the submitted blocks
\* follow the stored ones
WriteFile_Append(fs, k, rec) ==
  LET old == IF fs[device_file(k)] # NoFile /\ LoadOk(fs[device_file(k)])
             THEN Load(fs[device_file(k)]).blocks ELSE <<>>
  IN  [fs EXCEPT ![device_file(k)] = Dump([rec EXCEPT !.blocks = old \o @])]

\* app.py:156-157  open(device_file, 'w') and json.dump, when nothing else
\* touches the file meanwhile
WriteFile(fs, k, rec) == [fs EXCEPT ![device_file(k)] = Dump(rec)]

\* mutant: the record is written once the key is valid, before the ledger is
\* verified
sync_blockchain_WriteFirst(data) ==
  LET answer == Answer(data, blocks)
  IN  /\ req' = [data |-> data, before |-> files]
      /\ resp' = answer
      /\ IF data.has_key /\ data.has_data /\ KeyOk[data.device_key]
         THEN /\ clock < MaxClock
              /\ clock' = clock + 1
              /\ files' = WriteFile(files, data.device_key,
                                    storage_data(data, blocks, clock'))
         ELSE UNCHANGED <<files, clock>>
      /\ UNCHANGED <<endpointVars, blocks, edits, verdict, threadVars, keyVars, intelVars>>

\* POST /api/sync, app.py:113-171, handled from start to end
sync_blockchain(data) ==
  LET answer == Answer(data, blocks)
  IN  /\ req' = [data |-> data, before |-> files]
      /\ resp' = answer
      /\ IF answer.status = 200
         THEN /\ clock < MaxClock
              /\ clock' = clock + 1
              /\ files' = WriteFile(files, data.device_key,
                                    storage_data(data, blocks, clock'))
         ELSE UNCHANGED <<files, clock>>
      /\ UNCHANGED <<endpointVars, blocks, edits, verdict, threadVars, keyVars, intelVars>>

\* ------------------------------------------- the threaded server, by steps
\* app.py:640  app.run(...): the development server handles each request in
\* a thread of its own
Threads == 1..NThreads

NoJob == [op |-> "none", key |-> "none", content |-> <<>>, status |-> 0]

\* the device's chain of n blocks
RECURSIVE Chain(_)
Chain(n) ==
  IF n = 0 THEN <<>>
  ELSE Append(Chain(n - 1), NewBlock(Chain(n - 1), "k1"))

\* the ledgers concurrent requests carry: chains of one and of three blocks,
\* and one whose second block was edited
ConcLedgers ==
  {Chain(1), Chain(3), [Chain(2) EXCEPT ![2].keyword = JStr(<<"k2">>)]}

\* the keys concurrent requests carry
ConcKeys == {"K1", "BYPASS", "SEG7"}

ConcRequest(k) ==
  [device_key |-> k, has_key |-> TRUE, has_data |-> TRUE,
   app_version |-> JStr(<<"1.0.0">>)]

\* the request the monitored device sends under its key
DeviceRequest == ConcRequest("K1")

\* the payloads of /api/sync with a second valid key among them
StoreRequests == Requests \cup {ConcRequest("K2")}

\* bytes the file system puts where a write starts beyond the end of a file
Hole == [u |-> "hole", v |-> <<>>]

\* write(fd, chunk) at offset off: the chunk replaces what the file holds
\* there and extends the file where it is shorter
PWrite(content, off, chunk) ==
  LET base == IF Len(content) < off
              THEN content \o [i \in 1..(off - Len(content)) |-> Hole]
              ELSE content
  IN  SubSeq(base, 1, off) \o chunk
        \o SubSeq(base, off + Len(chunk) + 1, Len(base))

\* app.py:127-154: a thread takes a sync request, validates and verifies it,
\* and builds the record
SyncStart(t, data, ledger) ==
  LET answer == Answer(data, ledger)
  IN  /\ pc[t] = "idle"
      /\ IF answer.status = 200
         THEN /\ clock' = clock + 1
              /\ job' = [job EXCEPT ![t] =
                           [op |-> "sync", key |-> data.device_key,
                            content |-> Dump(storage_data(data, ledger, clock')),
                            status |-> 0]]
              /\ pc' = [pc EXCEPT ![t] = "open"]
         ELSE /\ job' = [job EXCEPT ![t] =
                           [op |-> "sync", key |-> data.device_key,
                            content |-> <<>>, status |-> answer.status]]
              /\ pc' = [pc EXCEPT ![t] = "done"]
              /\ UNCHANGED clock
      /\ UNCHANGED <<endpointVars, keyVars, intelVars, blocks, edits, files, req, resp, verdict, fd>>

\* app.py:156  open(device_file, 'w'): the file is created or cut to nothing
SyncOpen(t) ==
  /\ pc[t] = "open"
  /\ files' = [files EXCEPT ![device_file(job[t].key)] = EmptyFile]
  /\ fd' = [fd EXCEPT ![t] = 0]
  /\ pc' = [pc EXCEPT ![t] = "write"]
  /\ UNCHANGED <<endpointVars, keyVars, intelVars, blocks, edits, clock, req, resp, verdict, job>>

\* app.py:157  json.dump(storage_data, f): the buffered text reaches the file
\* in one write or in several, the last when the file is closed; then the
\* handler answers 200
SyncWrite(t, n) ==
  /\ pc[t] = "write"
  /\ n \in 1..(Len(job[t].content) - fd[t])
  /\ files' = [files EXCEPT ![device_file(job[t].key)] =
                 PWrite(@, fd[t], SubSeq(job[t].content, fd[t] + 1, fd[t] + n))]
  /\ fd' = [fd EXCEPT ![t] = @ + n]
  /\ IF fd'[t] = Len(job[t].content)
     THEN /\ pc' = [pc EXCEPT ![t] = "done"]
          /\ job' = [job EXCEPT ![t].status = 200]
     ELSE UNCHANGED <<pc, job>>
  /\ UNCHANGED <<endpointVars, keyVars, intelVars, blocks, edits, clock, req, resp, verdict>>

\* GET /api/dashboard/<device_key>, app.py:173-230: the thread reads the file
\* of the key and answers with what it loaded
get_dashboard_data(t, k) ==
  /\ pc[t] = "idle"
  /\ pc' = [pc EXCEPT ![t] = "done"]
  /\ job' = [job EXCEPT ![t] =
               IF ~KeyOk[k]
               THEN [op |-> "dashboard", key |-> k, content |-> <<>>,
                     status |-> 400]
               ELSE IF files[device_file(k)] = NoFile
               THEN [op |-> "dashboard", key |-> k, content |-> <<>>,
                     status |-> 404]
               ELSE [op |-> "dashboard", key |-> k,
                     content |-> files[device_file(k)],
                     status |-> IF LoadOk(files[device_file(k)]) THEN 200
                                ELSE 500]]
  /\ UNCHANGED <<endpointVars, keyVars, intelVars, blocks, edits, files, clock, req, resp, verdict, fd>>

\* ------------------------------------------------ tokens offered as keys
\* the segment that sets a token apart: eight hex characters of both cases,
\* seven or nine characters, a character that is no hex digit, or nothing
OddSegment(kind) ==
  CASE kind = "hex" -> <<"0", "F", "a", "9", "B", "c", "1", "E">>
    [] kind = "short" -> Seg("a", 7)
    [] kind = "long" -> Seg("a", 9)
    [] kind = "nonhex" -> Seg("a", 7) \o <<"g">>
    [] OTHER -> <<>>

SegmentKinds == {"hex", "short", "long", "nonhex", "empty"}

\* n segments joined by hyphens, the one at position at of the given kind
TokenOf(n, at, kind) ==
  Join([i \in 1..n |-> IF i = at THEN OddSegment(kind) ELSE Seg("a", 8)])

\* the override token, and texts near it
ShortTokens ==
  {BYPASS_KEY, <<>>, BYPASS_KEY \o <<"5">>, SubSeq(BYPASS_KEY, 1, 3),
   BYPASS_KEY \o <<"-">> \o BYPASS_KEY}

\* a request arrives with this text as its device key; without one the
\* token is the empty text
NewToken(text) ==
  /\ token = <<>> /\ accepted = "none"
  /\ text # token
  /\ token' = text
  /\ accepted' = "none"
  /\ UNCHANGED <<endpointVars, blocks, edits, files, clock, req, resp, verdict, threadVars,
                 intelVars>>

\* validate_device_key(token), app.py:54-73
Validate ==
  /\ accepted = "none"
  /\ accepted' = IF validate_device_key(token) THEN "True" ELSE "False"
  /\ UNCHANGED <<endpointVars, blocks, edits, files, clock, req, resp, verdict, threadVars,
                 token, intelVars>>

\* ------------------------------------------------ the aggregator's inputs
\* str(n) for 0 <= n < 1000
Decimal(n) ==
  IF n < 10 THEN Digit(n)
  ELSE IF n < 100 THEN Digit(n \div 10) \o Digit(n % 10)
  ELSE Digit(n \div 100) \o Digit((n \div 10) % 10) \o Digit(n % 10)

\* the n-th keyword and the n-th app name
KeywordText(n) == JStr(<<"kw">> \o Decimal(n))
AppText(n) == JStr(<<"app">> \o Decimal(n))

\* a JSON number of milliseconds since the epoch, as whole seconds and the
\* milliseconds beyond them
JMs(sec, ms) == [ty |-> "int", sec |-> sec, ms |-> ms]
NoTimestamp == [ty |-> "absent", sec |-> 0, ms |-> 0]

\* block.get(key, default)
Get(block, key, default) ==
  IF block[key].ty = "absent" THEN default ELSE block[key]

\* `if timestamp:` for a number
Truthy(timestamp) == timestamp.sec # 0 \/ timestamp.ms # 0

\* the calendar date <<year, month, day>> of the day that lies z days after
\* 1970-01-01
CivilFromDays(z) ==
  LET zz == z + 719468
      era == zz \div 146097
      doe == zz - era * 146097
      yoe == (doe - doe \div 1460 + doe \div 36524 - doe \div 146096) \div 365
      doy == doe - (365 * yoe + yoe \div 4 - yoe \div 100)
      mp == (5 * doy + 2) \div 153
      d == doy - (153 * mp + 2) \div 5 + 1
      m == IF mp < 10 THEN mp + 3 ELSE mp - 9
      y == yoe + era * 400 + (IF m <= 2 THEN 1 ELSE 0)
  IN  <<y, m, d>>

\* the characters of a text are their code points: '-' is 45, '0' is 48
Chr(digit) == 48 + digit

\* datetime.fromtimestamp(timestamp / 1000).strftime('%Y-%m-%d'), the server's
\* local time being UTC: the ten characters of the date
DateText(ymd) ==
  <<Chr(ymd[1] \div 1000), Chr((ymd[1] \div 100) % 10),
    Chr((ymd[1] \div 10) % 10), Chr(ymd[1] % 10), 45,
    Chr(ymd[2] \div 10), Chr(ymd[2] % 10), 45,
    Chr(ymd[3] \div 10), Chr(ymd[3] % 10)>>
strftime(timestamp) == DateText(CivilFromDays(timestamp.sec \div 86400))

\* ------------------------------------------------ the aggregator
TopApps == 20          \* analytics.py:636  most_common(20)
TopKeywords == 100     \* analytics.py:652  most_common(100)
KeepDays == 30         \* analytics.py:686  screen_time_entries[-30:]
MinutesPerBlock == 2   \* analytics.py:669  count * 2
ScatterLimit == 100    \* analytics.py:349  blocked_attempts[:100]

Min(a, b) == IF a < b THEN a ELSE b
Max(a, b) == IF a < b THEN b ELSE a

\* collections.Counter / defaultdict(int) fed the values one by one: the
\* distinct values in the order they were first seen, each with its count
Counter(values) ==
  LET n == Len(values)
      isFirst(i) == \A j \in 1..(i - 1) : values[j] # values[i]
      firsts == SelectSeq([i \in 1..n |-> i], isFirst)
  IN  <<>> \o [k \in 1..Len(firsts) |->
                 [key |-> values[firsts[k]],
                  count |-> Cardinality({j \in 1..n : values[j] = values[firsts[k]]})]]

\* the items in the order a stable sort gives them, before[j, i] saying that
\* item j sorts strictly before item i: each item goes behind those that sort
\* before it and behind the equal ones that stood before it
StableSort(items, before) ==
  LET m == Len(items)
      pos == <<>> \o [i \in 1..m |->
               1 + Cardinality({j \in 1..m :
                     \/ before[j, i]
                     \/ ~before[i, j] /\ j < i})]
      at == <<>> \o [p \in 1..m |-> CHOOSE i \in 1..m : pos[i] = p]
  IN  <<>> \o [p \in 1..m |-> items[at[p]]]

\* mutant: equal counts in the order last seen first
most_common_LastFirst(counter, n) ==
  LET reversed == [i \in 1..Len(counter) |-> counter[Len(counter) + 1 - i]]
      more == [j \in 1..Len(counter), i \in 1..Len(counter) |->
                 reversed[j].count > reversed[i].count]
  IN  SubSeq(StableSort(reversed, more), 1, Min(n, Len(counter)))

\* Counter.most_common(n): sorted by count, largest first, equal counts in
\* the order first seen; the first n of them
most_common(counter, n) ==
  LET more == [j \in 1..Len(counter), i \in 1..Len(counter) |->
                 counter[j].count > counter[i].count]
  IN  SubSeq(StableSort(counter, more), 1, Min(n, Len(counter)))

\* a < b for two strings, as Python compares them: by the first character
\* in which they differ, a proper prefix being the smaller
StrLess(a, b) ==
  \E i \in 1..(Min(Len(a), Len(b)) + 1) :
    /\ \A j \in 1..(i - 1) : a[j] = b[j]
    /\ IF i > Len(a) THEN i <= Len(b)
       ELSE i <= Len(b) /\ a[i] < b[i]

\* what the loop over the blocks reads of each, analytics.py:606-609
AppNames(ledger) ==
  [i \in 1..Len(ledger) |-> Get(ledger[i], "appName", JStr(<<"Unknown">>))]
Keywords(ledger) ==
  [i \in 1..Len(ledger) |-> Get(ledger[i], "keyword", JStr(<<>>))]
Timestamps(ledger) ==
  [i \in 1..Len(ledger) |-> Get(ledger[i], "timestamp", JMs(0, 0))]

\* mutant: the first apps seen are taken, in the order seen
mostUsedApps_Unsorted(ledger, now) ==
  LET counter == Counter(AppNames(ledger))
      top == SubSeq(counter, 1, Min(TopApps, Len(counter)))
  IN  [p \in 1..Len(top) |->
         [appName |-> top[p].key, usageCount |-> top[p].count,
          lastUsed |-> now]]

\* analytics.py:601-637: one entry per app name, the most used first
mostUsedApps(ledger, now) ==
  LET top == most_common(Counter(AppNames(ledger)), TopApps)
  IN  [p \in 1..Len(top) |->
         [appName |-> top[p].key, usageCount |-> top[p].count,
          lastUsed |-> now]]

\* analytics.py:639-653: one entry per keyword, the most frequent first
searchedKeywords(ledger, now) ==
  LET top == most_common(Counter(Keywords(ledger)), TopKeywords)
  IN  [p \in 1..Len(top) |->
         [keyword |-> top[p].key, frequency |-> top[p].count,
          timestamp |-> now]]

\* analytics.py:621-626, 656: one attempt per block
blockedNSFWAttempts(ledger) ==
  [i \in 1..Len(ledger) |->
     [keyword |-> Keywords(ledger)[i],
      appName |-> AppNames(ledger)[i],
      timestamp |-> Timestamps(ledger)[i],
      blockHash |-> Get(ledger[i], "hash", JStr(<<>>))]]

\* analytics.py:659-664: the blocks with a timestamp counted by date
Dated(timestamps) ==
  [i \in 1..Len(timestamps) |-> strftime(timestamps[i])]
daily_screen_time(ledger) ==
  Counter(Dated(SelectSeq(Timestamps(ledger), Truthy)))

\* sorted(daily_screen_time.items()): the dates in the order of their texts
sorted_items(counted) ==
  StableSort(counted, [j \in 1..Len(counted), i \in 1..Len(counted) |->
                         StrLess(counted[j].key, counted[i].key)])

\* analytics.py:667-674: an entry per date
Entries(sorted) ==
  [i \in 1..Len(sorted) |->
     [date |-> sorted[i].key, minutes |-> sorted[i].count * MinutesPerBlock]]
screen_time_entries(ledger) ==
  Entries(sorted_items(daily_screen_time(ledger)))

\* sum(entry['minutes'] for entry in entries[lo..hi])
RECURSIVE SumMinutes(_, _, _)
SumMinutes(entries, lo, hi) ==
  IF lo > hi THEN 0
  ELSE IF lo = hi THEN entries[lo].minutes
  ELSE SumMinutes(entries, lo, (lo + hi) \div 2)
         + SumMinutes(entries, (lo + hi) \div 2 + 1, hi)

\* analytics.py:676-682
weekly_average(entries) ==
  IF entries # <<>>
  THEN SumMinutes(entries, 1, Len(entries)) \div Len(entries)
  ELSE 0

\* analytics.py:685-692
ScreenTime(entries) ==
  [dailyScreenTime |->
     SubSeq(entries, Max(1, Len(entries) - KeepDays + 1), Len(entries)),
   weeklyAverage |-> weekly_average(entries)]
screenTimeData(ledger) == ScreenTime(screen_time_entries(ledger))

\* a key a JSON object may lack holds <<>> when it is missing and <<v>> when
\* it has the value v
Missing == <<>>

\* analytics.py:590-596: the template with the key and the time of creation
Template(device_key, now) ==
  [childProfile |->
     [deviceKey |-> device_key, profileCreated |-> now, lastUpdated |-> 0],
   behavioralData |->
     [mostUsedApps |-> <<>>, searchedKeywords |-> <<>>,
      blockedNSFWAttempts |-> <<>>,
      screenTimeData |-> [dailyScreenTime |-> <<>>, weeklyAverage |-> 0],
      emotionalTone |-> Missing],
   metadata |->
     [lastSync |-> 0, totalViolations |-> 0, integrityVerified |-> TRUE],
   policySettings |-> intelligence_template,
   syntheticReport |-> Missing,
   conversationStarters |-> Missing,
   analyticsFiles |-> Missing]

\* analytics.py:585-698: the profile the method returns and saves, from the
\* key, the stored record, the profile stored so far and the time; the keys
\* it does not assign stay as loaded
UpdatedIntelligence(device_key, data, stored, now) ==
  LET loaded == IF stored = NoProfile THEN Template(device_key, now)
                ELSE stored[1]
  IN  [loaded EXCEPT
         !.childProfile = [@ EXCEPT !.lastUpdated = now],
         !.behavioralData =
           [@ EXCEPT
              !.mostUsedApps = mostUsedApps(data.blocks, now),
              !.searchedKeywords = searchedKeywords(data.blocks, now),
              !.blockedNSFWAttempts = blockedNSFWAttempts(data.blocks),
              !.screenTimeData = screenTimeData(data.blocks)],
         !.metadata =
           [lastSync |-> now,
            totalViolations |-> Len(data.blocks),
            integrityVerified |-> data.integrity_verified]]

\* AnalyticsProcessor.update_behavioral_data_from_blockchain(device_key,
\* blockchain_data), analytics.py:580-703
update_behavioral_data_from_blockchain(device_key) ==
  /\ clock < MaxClock
  /\ clock' = clock + 1
  /\ intelligence' =
       <<UpdatedIntelligence(device_key, blockchain_data,
                             intel_files[device_key], clock')>>
  /\ intel_files' = [intel_files EXCEPT ![device_key] = intelligence']
  /\ UNCHANGED <<endpointVars, blocks, edits, files, req, resp, verdict, threadVars,
                 keyVars, blockchain_data>>

\* analytics.py:336-361: the points of the blocked-attempts chart
generate_blocked_attempts_scatter(blocked_attempts) ==
  LET first == SubSeq(blocked_attempts, 1,
                      Min(ScatterLimit, Len(blocked_attempts)))
      kept(i) == Truthy(first[i].timestamp)
      at == SelectSeq([i \in 1..Len(first) |-> i], kept)
  IN  [n \in 1..Len(at) |->
         [x |-> [date |-> strftime(first[at[n]].timestamp),
                 minute |-> (first[at[n]].timestamp.sec % 86400) \div 60],
          y |-> at[n],
          keyword |-> first[at[n]].keyword]]

\* ---------------------------------------- the records the aggregator is handed
\* 2023-12-31T00:00:00Z in seconds since the epoch
Day0 == 1703980800

AggBlock(keyword, appName, timestamp, n) ==
  [keyword |-> keyword, appName |-> appName, timestamp |-> timestamp,
   hash |-> JStr(<<"h">> \o Decimal(n))]

\* the blocks short ledgers are made of: the last hour of a year and the
\* first of the next, a keyword seen again in another app, a block stamped
\* 0, and a first block without the fields
SmallBlocks ==
  {AggBlock(KeywordText(1), AppText(1), JMs(Day0 + 82800, 0), 1),
   AggBlock(KeywordText(2), AppText(1), JMs(Day0 + 86400 + 1800, 500), 2),
   AggBlock(KeywordText(1), AppText(2), JMs(Day0 + 86400 + 28800, 0), 3),
   AggBlock(KeywordText(3), AppText(3), JMs(0, 0), 4),
   AggBlock(NoKey, NoKey, NoTimestamp, 5)}

\* long ledgers: every block with a keyword, an app and a day of its own;
\* keywords, apps and days that come back unevenly and out of order; or a
\* busy first day followed by days of one block each
LongShapes == {"distinct", "mixed", "skewed"}
BusyDay == 60
LongBlock(i, shape) ==
  IF shape = "distinct"
  THEN AggBlock(KeywordText(i), AppText(i), JMs(Day0 + i * 86400, 0), i)
  ELSE IF shape = "mixed"
  THEN AggBlock(KeywordText((i * i) % 211), AppText((i * i) % 47),
                JMs(Day0 + ((i * 7) % 40) * 86400 + i, i), i)
  ELSE AggBlock(KeywordText(i % 7), AppText(i % 3),
                JMs(Day0 + Max(0, i - BusyDay) * 86400 + i, 0), i)
LongLedger(n, shape) == <<>> \o [i \in 1..n |-> LongBlock(i, shape)]

\* lengths about the limits of the aggregator
LongLengths ==
  {TopApps + 1, KeepDays - 1, KeepDays, KeepDays + 1, TopKeywords - 1,
   TopKeywords, TopKeywords + 1, MaxLong}

\* a block is added to the stored record
Record(b) ==
  /\ Len(blockchain_data.blocks) < MaxLen
  /\ blockchain_data' = [blockchain_data EXCEPT !.blocks = Append(@, b)]
  /\ intelligence' = NoProfile
  /\ UNCHANGED <<endpointVars, blocks, edits, files, clock, req, resp, verdict, threadVars,
                 keyVars, intel_files>>

\* the stored record is a long ledger
Replay(n, shape) ==
  /\ blockchain_data.blocks = <<>>
  /\ intelligence = NoProfile
  /\ blockchain_data' = [blockchain_data EXCEPT !.blocks = LongLedger(n, shape)]
  /\ UNCHANGED <<endpointVars, blocks, edits, files, clock, req, resp, verdict, threadVars,
                 keyVars, intel_files, intelligence>>

\* ------------------------------------------------ the narrative report
SummaryApps == 5        \* gemini_analyzer.py:121  [:5]
SummaryKeywords == 15   \* gemini_analyzer.py:122  [:15]
DefaultTone == 50       \* gemini_analyzer.py:124  .get('overallSentiment', 50)
ScoreNone == 80         \* gemini_analyzer.py:231  wellness_score >= 80
ScoreMinimal == 60      \* gemini_analyzer.py:234  wellness_score >= 60
ScoreModerate == 40     \* gemini_analyzer.py:237  wellness_score >= 40

\* seq[:n]
Prefix(seq, n) == SubSeq(seq, 1, Min(n, Len(seq)))

\* gemini_analyzer.py:114-127: the summary of a profile
summary(intelligence_data) ==
  LET behavioral == intelligence_data.behavioralData
      apps == Prefix(behavioral.mostUsedApps, SummaryApps)
      keywords == Prefix(behavioral.searchedKeywords, SummaryKeywords)
  IN  [totalApps |-> Len(behavioral.mostUsedApps),
       totalKeywords |-> Len(behavioral.searchedKeywords),
       blockedAttempts |-> Len(behavioral.blockedNSFWAttempts),
       topApps |-> [i \in 1..Len(apps) |-> apps[i].appName],
       recentKeywords |-> [i \in 1..Len(keywords) |-> keywords[i].keyword],
       screenTimeWeekly |-> behavioral.screenTimeData.weeklyAverage,
       emotionalTone |->
         IF behavioral.emotionalTone = Missing THEN DefaultTone
         ELSE behavioral.emotionalTone[1].overallSentiment]

\* what self.model.generate_content(prompt) and json.loads can come to: the
\* call raises, the text is no JSON, the JSON is no object, or it is an
\* object, with or without emotionalTrends
Responses == {"raises", "unparseable", "array", "object", "no_trends"}

\* an answer of a method: a value, or the exception it raised
Returned(value) == [raised |-> "", value |-> <<value>>]
Raised(exception) == [raised |-> exception, value |-> <<>>]

\* seq[0] if seq else default
FirstOr(seq, default) == IF seq # <<>> THEN seq[1] ELSE default

\* gemini_analyzer.py:231-242
concern_level(wellness_score) ==
  IF wellness_score >= ScoreNone THEN "none"
  ELSE IF wellness_score >= ScoreMinimal THEN "minimal"
  ELSE IF wellness_score >= ScoreModerate THEN "moderate"
  ELSE "elevated"

\* gemini_analyzer.py:231-242
trend_direction(wellness_score) ==
  IF wellness_score >= ScoreNone THEN "improving"
  ELSE IF wellness_score >= ScoreModerate THEN "stable"
  ELSE "concerning"

\* the texts of the fallback report are told by the values put into them
\* mutant: the first app is named without looking whether there is one
generate_fallback_report_Unguarded(about, now) ==
  IF about.topApps = <<>> THEN Raised("IndexError")
  ELSE Returned(
    [source |-> "fallback",
     executiveSummary |->
       [totalApps |-> about.totalApps, totalKeywords |-> about.totalKeywords,
        wellnessScore |-> about.emotionalTone,
        apps |-> Prefix(about.topApps, 3),
        trend |-> trend_direction(about.emotionalTone)],
     keyFindings |->
       [screenTimeWeekly |-> about.screenTimeWeekly,
        totalApps |-> about.totalApps, totalKeywords |-> about.totalKeywords,
        wellnessScore |-> about.emotionalTone,
        concern |-> concern_level(about.emotionalTone),
        trend |-> trend_direction(about.emotionalTone)],
     emotionalTrends |->
       <<[trendDirection |-> trend_direction(about.emotionalTone),
          concernLevel |-> concern_level(about.emotionalTone),
          wellnessScore |-> about.emotionalTone]>>,
     possibleConcerns |->
       IF about.blockedAttempts > 0
       THEN <<about.screenTimeWeekly, about.blockedAttempts>> ELSE <<>>,
     guidanceForParents |->
       [wellnessScore |-> about.emotionalTone,
        concern |-> concern_level(about.emotionalTone),
        apps |-> Prefix(about.topApps, 2)],
     conversationStarters |->
       [app |-> about.topApps[1],
        keyword |-> FirstOr(about.recentKeywords, JStr(<<"different topics">>))],
     screenTimePolicy |->
       [recommendedDailyLimit |-> 120, weekendLimit |-> 180,
        reasoning |-> about.screenTimeWeekly],
     generatedAt |-> now,
     reportId |-> <<"RPT-FALLBACK", now>>])

\* GeminiAnalyzer._generate_fallback_report(summary),
\* gemini_analyzer.py:226-305
generate_fallback_report(about, now) ==
  Returned(
    [source |-> "fallback",
     executiveSummary |->
       [totalApps |-> about.totalApps, totalKeywords |-> about.totalKeywords,
        wellnessScore |-> about.emotionalTone,
        apps |-> Prefix(about.topApps, 3),
        trend |-> trend_direction(about.emotionalTone)],
     keyFindings |->
       [screenTimeWeekly |-> about.screenTimeWeekly,
        totalApps |-> about.totalApps, totalKeywords |-> about.totalKeywords,
        wellnessScore |-> about.emotionalTone,
        concern |-> concern_level(about.emotionalTone),
        trend |-> trend_direction(about.emotionalTone)],
     emotionalTrends |->
       <<[trendDirection |-> trend_direction(about.emotionalTone),
          concernLevel |-> concern_level(about.emotionalTone),
          wellnessScore |-> about.emotionalTone]>>,
     possibleConcerns |->
       IF about.blockedAttempts > 0
       THEN <<about.screenTimeWeekly, about.blockedAttempts>> ELSE <<>>,
     guidanceForParents |->
       [wellnessScore |-> about.emotionalTone,
        concern |-> concern_level(about.emotionalTone),
        apps |-> Prefix(about.topApps, 2)],
     conversationStarters |->
       [app |-> FirstOr(about.topApps, JStr(<<"various apps">>)),
        keyword |-> FirstOr(about.recentKeywords, JStr(<<"different topics">>))],
     screenTimePolicy |->
       [recommendedDailyLimit |-> 120, weekendLimit |-> 180,
        reasoning |-> about.screenTimeWeekly],
     generatedAt |-> now,
     reportId |-> <<"RPT-FALLBACK", now>>])

\* what the service wrote, as far as the code looks into it: the texts and
\* numbers of its report are its own
ServiceReport(response, about, now) ==
  [source |-> "service",
   executiveSummary |-> "service", keyFindings |-> "service",
   emotionalTrends |->
     IF response = "no_trends" THEN Missing
     ELSE <<[trendDirection |-> "stable", concernLevel |-> "minimal",
             wellnessScore |-> about.emotionalTone]>>,
   possibleConcerns |-> "service", guidanceForParents |-> "service",
   conversationStarters |-> "service", screenTimePolicy |-> "service",
   generatedAt |-> now,
   reportId |-> <<"RPT", now>>]

\* GeminiAnalyzer.generate_behavioral_report(intelligence_data),
\* gemini_analyzer.py:109-224
generate_behavioral_report(intelligence_data, response, now) ==
  IF response \in {"object", "no_trends"}
  THEN Returned(ServiceReport(response, summary(intelligence_data), now))
  ELSE generate_fallback_report(summary(intelligence_data), now)

\* ------------------------------------------------ the sleep-hour heatmap
HeatmapDays == 14   \* analytics.py:535  daily_data[-14:]
SleepSlots == 10    \* analytics.py:540  [0] * 10
Evening == 21       \* analytics.py:543  hour >= 21
Morning == 7        \* analytics.py:543  hour < 7
MorningShift == 3   \* analytics.py:547  idx = hour + 3

\* no chart written yet
NoChart == [type |-> "none", data |-> <<>>]

\* mutant: the hours after midnight are not moved behind the evening's
SlotOfHour_Unshifted(hour) == IF hour >= Evening THEN hour - Evening ELSE hour

\* analytics.py:544-547: the slot of an hour of the night
SlotOfHour(hour) ==
  IF hour >= Evening THEN hour - Evening ELSE hour + MorningShift

\* analytics.py:542-549: the loop over peak_hours, from the first n hours on
RECURSIVE CountSleepHours(_, _)
CountSleepHours(peak_hours, n) ==
  IF n = 0 THEN [i \in 1..SleepSlots |-> 0]
  ELSE LET before == CountSleepHours(peak_hours, n - 1)
           hour == peak_hours[n]
       IN  IF (hour >= Evening \/ hour < Morning)
                /\ 0 <= SlotOfHour(hour) /\ SlotOfHour(hour) < SleepSlots
           THEN [before EXCEPT ![SlotOfHour(hour) + 1] = @ + 1]
           ELSE before

\* analytics.py:540-549: sleep_hour_activity of a day; slot idx of the list
\* is at position idx + 1
sleep_hour_activity(peak_hours) == CountSleepHours(peak_hours, Len(peak_hours))

\* analytics.py:523-554: the data of the heatmap
heatmap_matrix(daily_data) ==
  LET last == SubSeq(daily_data, Max(1, Len(daily_data) - HeatmapDays + 1),
                     Len(daily_data))
  IN  [i \in 1..Len(last) |->
         [date |-> last[i].date,
          activity |-> sleep_hour_activity(last[i].peakHours)]]

\* AnalyticsProcessor._generate_sleep_time_heatmap, analytics.py:521-554
generate_sleep_time_heatmap ==
  /\ heatmap_data = NoChart
  /\ heatmap_data' =
       IF screen_time_data.dailyScreenTime = <<>>
       THEN [type |-> "matrix", data |-> <<>>]
       ELSE [type |-> "matrix",
             data |-> heatmap_matrix(screen_time_data.dailyScreenTime)]
  /\ UNCHANGED <<blocks, edits, files, clock, req, resp, verdict, threadVars,
                 keyVars, intelVars, pipeVars, view, screen_time_data>>

\* the days the heatmap is handed: the hours of a day, peak hours of one and
\* of two hours and the three of the documented example
Hours == 0..23
PeakHours ==
  {<<>>, <<22, 2, 10>>} \cup {<<h>> : h \in Hours}
    \cup {<<h, g>> : h \in {6, 21}, g \in {0, 6, 7, 20, 21, 23}}

\* long series: day i with the hour i mod 24 and the hour 22
LongDays(n) ==
  [i \in 1..n |-> [date |-> i, peakHours |-> <<i % 24, 22>>]]
DayCounts == {HeatmapDays - 1, HeatmapDays, HeatmapDays + 1, MaxDays}

\* a day is added to the series
AddDay(peak_hours) ==
  /\ Len(screen_time_data.dailyScreenTime) < MaxShort
  /\ screen_time_data' =
       [screen_time_data EXCEPT !.dailyScreenTime =
          Append(@, [date |-> Len(@) + 1, peakHours |-> peak_hours])]
  /\ heatmap_data' = NoChart
  /\ UNCHANGED <<blocks, edits, files, clock, req, resp, verdict, threadVars,
                 keyVars, intelVars, pipeVars, view>>

\* a long series is stored
LoadDays(n) ==
  /\ screen_time_data.dailyScreenTime = <<>>
  /\ heatmap_data = NoChart
  /\ screen_time_data' = [screen_time_data EXCEPT !.dailyScreenTime = LongDays(n)]
  /\ UNCHANGED <<blocks, edits, files, clock, req, resp, verdict, threadVars,
                 keyVars, intelVars, pipeVars, view, heatmap_data>>

\* ------------------------------------------- the intelligence endpoints
\* the device records a violation whose keyword is the JSON value keyword
MineValue(keyword) ==
  /\ Len(blocks) < MaxPipe
  /\ blocks' = Append(blocks,
                      Sealed([NewBlock(blocks, "k1") EXCEPT !.keyword = keyword]))
  /\ req' = NoReq
  /\ resp' = NoResp
  /\ verdict' = "none"
  /\ UNCHANGED <<edits, files, clock, threadVars, keyVars, intelVars,
                 endpointVars>>

\* the number a JSON number of one digit stands for
DigitValue(v) == CHOOSE n \in 0..9 : Digit(n) = v.s

\* json.load(f)['blocks'] as the aggregator reads them: the timestamp of a
\* block as milliseconds
StoredBlocks(record) ==
  [i \in 1..Len(record.blocks) |->
     [record.blocks[i] EXCEPT
        !.timestamp = IF @.ty = "absent" THEN NoTimestamp
                      ELSE JMs(0, DigitValue(@))]]

\* the answers of the sentiment service as sync_intelligence sees them,
\* app.py:367-389: a score (50 when the service fails inside the analyzer), or
\* an exception, which leaves the score 0
Sentiments ==
  {Raised("AttributeError")} \cup {Returned(score) : score \in {39, 40, 60, 80}}

\* ', '.join(...) raises a TypeError over a keyword that is no string
Joinable(keywords) ==
  \A i \in 1..Len(keywords) : keywords[i].keyword.ty = "str"

\* app.py:365-389: emotionalTone, from the service or the fallback
emotionalTone(intelligence_data, sentiment) ==
  LET keywords == intelligence_data.behavioralData.searchedKeywords
      names == [i \in 1..Len(keywords) |-> keywords[i].keyword]
  IN  IF keywords = <<>>
      THEN [overallSentiment |-> DefaultTone, neutralPatterns |-> <<>>]
      ELSE IF sentiment.raised # "" \/ ~Joinable(Prefix(keywords, 50))
      THEN [overallSentiment |-> 0, neutralPatterns |-> Prefix(names, 10)]
      ELSE [overallSentiment |-> sentiment.value[1], neutralPatterns |-> <<>>]

\* AnalyticsProcessor.generate_conversation_starters(intelligence_data),
\* analytics.py:853-1108: the cards are told by what they are made from
generate_conversation_starters(intelligence_data) ==
  LET behavioral == intelligence_data.behavioralData
      keywords == Prefix(behavioral.searchedKeywords, 3)
  IN  IF ~Joinable(keywords) THEN Raised("TypeError")
      ELSE Returned(
        [app |-> IF behavioral.mostUsedApps = <<>> THEN <<>>
                 ELSE <<behavioral.mostUsedApps[1].appName,
                        behavioral.mostUsedApps[1].usageCount>>,
         keywords |-> [i \in 1..Len(keywords) |-> keywords[i].keyword],
         wellness |-> behavioral.emotionalTone[1].overallSentiment])

\* the profile of a key, load_intelligence(device_key), analytics.py:25-33
load_intelligence(device_key) == intel_files[device_key]

\* an endpoint answers: the request and its status are kept, a success for
\* good
AnswersTo(op, device_key, body, status) ==
  /\ call' = [op |-> op, key |-> device_key, body |-> body, status |-> status]
  /\ done' = IF status = 200 THEN done \cup {<<op, device_key>>} ELSE done

\* an endpoint that takes no body answers
Answers(op, device_key, status) == AnswersTo(op, device_key, "", status)

\* app.py:356-363: the stored record read and the profile `loaded` updated
\* from it, as analytics.py:701 saves it
Updated(device_key, loaded, now) ==
  UpdatedIntelligence(
    device_key,
    [blocks |-> StoredBlocks(Load(files[device_file(device_key)])),
     integrity_verified |->
       Load(files[device_file(device_key)]).integrity_verified],
    loaded, now)

\* app.py:365-398 carried on with the updated profile
Toned(updated, sentiment) ==
  [updated EXCEPT !.behavioralData.emotionalTone =
     <<emotionalTone(updated, sentiment)>>]

\* app.py:359-409 on the profile `loaded`: the status of the answer and the
\* profile the last save left in the store
Synced(device_key, loaded, sentiment, now) ==
  LET toned == Toned(Updated(device_key, loaded, now), sentiment)
      starters == generate_conversation_starters(toned)
  IN  IF starters.raised # ""
      THEN [status |-> 500, saved |-> Updated(device_key, loaded, now)]
      ELSE [status |-> 200,
            saved |-> [toned EXCEPT !.conversationStarters = starters.value,
                                    !.analyticsFiles = <<device_key>>]]

\* POST /api/intelligence/sync/<device_key>, app.py:337-415
sync_intelligence(device_key, sentiment) ==
  /\ clock < MaxSteps
  /\ IF files[device_file(device_key)] = NoFile
     THEN /\ Answers("sync_intelligence", device_key, 404)
          /\ UNCHANGED <<clock, intel_files>>
     ELSE /\ clock' = clock + 1
          /\ intel_files' =
               [intel_files EXCEPT ![device_key] =
                  <<Synced(device_key, load_intelligence(device_key),
                           sentiment, clock + 1).saved>>]
          /\ Answers("sync_intelligence", device_key,
                     Synced(device_key, load_intelligence(device_key),
                            sentiment, clock + 1).status)
  /\ UNCHANGED <<blocks, edits, files, req, resp, verdict, threadVars,
                 keyVars, intelligence, blockchain_data, heatVars, view,
                 intelligence_template, reports_dir>>

\* GET /api/intelligence/<device_key>, app.py:313-335
get_intelligence_data(device_key) ==
  /\ Answers("get_intelligence_data", device_key,
             IF load_intelligence(device_key) = NoProfile THEN 404 ELSE 200)
  /\ UNCHANGED <<blocks, edits, files, clock, req, resp, verdict, threadVars,
                 keyVars, intelVars, heatVars, view, intelligence_template,
                 reports_dir>>

\* GET /api/conversation-starters/<device_key>, app.py:586-606
get_conversation_starters(device_key) ==
  /\ Answers("get_conversation_starters", device_key,
             IF load_intelligence(device_key) = NoProfile THEN 404 ELSE 200)
  /\ UNCHANGED <<blocks, edits, files, clock, req, resp, verdict, threadVars,
                 keyVars, intelVars, heatVars, view, intelligence_template,
                 reports_dir>>

\* the methods of requests to /api/policy/<device_key>, app.py:527
Methods == {"GET_policy", "POST_policy"}

\* the bodies of policy requests: none, the empty object and two policies
Bodies == {"{}", "P1", "P2"}

\* `not new_policy`, `not intelligence.get('policySettings')`
Falsy(body) == body = "{}"
NoSettings(intelligence_data) ==
  \/ intelligence_data.policySettings = Missing
  \/ /\ intelligence_data.policySettings[1].currentPolicy = Missing
     /\ intelligence_data.policySettings[1].policyHistory = Missing
     /\ intelligence_data.policySettings[1].lastUpdated = Missing

\* app.py:558  intelligence.get('policySettings', {}).get('currentPolicy', {})
current_policy(intelligence_data) ==
  IF intelligence_data.policySettings = Missing THEN "{}"
  ELSE IF intelligence_data.policySettings[1].currentPolicy = Missing THEN "{}"
  ELSE intelligence_data.policySettings[1].currentPolicy[1]

\* app.py:557-570: the profile with the policy replaced, or the KeyError of
\* line 563
WithPolicy(intelligence_data, new_policy, now) ==
  LET settings ==
        IF NoSettings(intelligence_data)
        THEN [currentPolicy |-> Missing, policyHistory |-> << <<>> >>,
              lastUpdated |-> Missing]
        ELSE intelligence_data.policySettings[1]
  IN  IF settings.policyHistory = Missing THEN Raised("KeyError")
      ELSE Returned(
        [intelligence_data EXCEPT !.policySettings =
           <<[currentPolicy |-> <<new_policy>>,
              policyHistory |->
                <<Append(settings.policyHistory[1],
                         [policy |-> current_policy(intelligence_data),
                          changedAt |-> now])>>,
              lastUpdated |-> <<now>>]>>])

\* GET and POST /api/policy/<device_key>, app.py:525-584
manage_policy(device_key, method, new_policy) ==
  LET intelligence_data == load_intelligence(device_key)
      changed == WithPolicy(intelligence_data[1], new_policy, clock + 1)
  IN  /\ clock < MaxSteps
      /\ IF intelligence_data = NoProfile
         THEN /\ Answers(method, device_key, 404)
              /\ UNCHANGED <<clock, intel_files>>
         ELSE IF method = "GET_policy"
         THEN /\ Answers(method, device_key, 200)
              /\ UNCHANGED <<clock, intel_files>>
         ELSE IF Falsy(new_policy)
         THEN /\ AnswersTo(method, device_key, new_policy, 400)
              /\ UNCHANGED <<clock, intel_files>>
         ELSE IF changed.raised # ""
         THEN /\ AnswersTo(method, device_key, new_policy, 500)
              /\ UNCHANGED <<clock, intel_files>>
         ELSE /\ clock' = clock + 1
              /\ intel_files' =
                   [intel_files EXCEPT ![device_key] = changed.value]
              /\ AnswersTo(method, device_key, new_policy, 200)
      /\ UNCHANGED <<blocks, edits, files, req, resp, verdict, threadVars,
                     keyVars, intelligence, blockchain_data, heatVars, view,
                     intelligence_template, reports_dir>>

\* the kinds of report a request may name, app.py:421
ReportTypes == {"full", "redacted"}

\* report_generator.py:115-117: the name of the PDF file of a report
Filename(report, report_type) == <<report.reportId, report_type>>

\* POST /api/report/generate/<device_key>, app.py:417-464: response is what
\* the narrative service does, rendered whether the PDF is built
generate_report(device_key, report_type, response, rendered) ==
  LET intelligence_data == load_intelligence(device_key)
      synthetic_report ==
        generate_behavioral_report(intelligence_data[1], response, clock + 1)
  IN  /\ clock < MaxSteps
      /\ IF intelligence_data = NoProfile
         THEN /\ Answers("generate_report", device_key, 404)
              /\ UNCHANGED <<clock, intel_files, reports_dir>>
         ELSE IF synthetic_report.raised # ""
         THEN /\ Answers("generate_report", device_key, 500)
              /\ UNCHANGED <<clock, intel_files, reports_dir>>
         ELSE /\ clock' = clock + 1
              /\ intel_files' =
                   [intel_files EXCEPT ![device_key] =
                      <<[intelligence_data[1] EXCEPT
                           !.syntheticReport = synthetic_report.value]>>]
              /\ IF rendered
                 THEN /\ reports_dir' =
                           reports_dir \cup
                             {Filename(synthetic_report.value[1], report_type)}
                      /\ Answers("generate_report", device_key, 200)
                 ELSE /\ Answers("generate_report", device_key, 500)
                      /\ UNCHANGED reports_dir
      /\ UNCHANGED <<blocks, edits, files, req, resp, verdict, threadVars,
                     keyVars, intelligence, blockchain_data, heatVars, view,
                     intelligence_template>>

\* GET /api/report/download/<device_key>, app.py:466-499
download_report(device_key, report_type) ==
  LET intelligence_data == load_intelligence(device_key)
  IN  /\ Answers("download_report", device_key,
                 IF intelligence_data = NoProfile THEN 404
                 ELSE IF intelligence_data[1].syntheticReport = Missing THEN 404
                 ELSE IF Filename(intelligence_data[1].syntheticReport[1],
                                  report_type) \notin reports_dir
                 THEN 404
                 ELSE 200)
      /\ UNCHANGED <<blocks, edits, files, clock, req, resp, verdict,
                     threadVars, keyVars, intelVars, heatVars, view,
                     intelligence_template, reports_dir>>

\* ------------------------------------------------ the read endpoints
\* the device appends a block recorded at the given time
MineAt(timestamp) ==
  /\ Len(blocks) < MaxPipe
  /\ blocks' = Append(blocks,
                      Sealed([NewBlock(blocks, "k1") EXCEPT
                                !.timestamp = JInt(Digit(timestamp))]))
  /\ req' = NoReq
  /\ resp' = NoResp
  /\ verdict' = "none"
  /\ UNCHANGED <<edits, files, clock, threadVars, keyVars, intelVars,
                 endpointVars>>

\* block[f] for each f the handler reads raises no KeyError
HasAll(ledger, fields) ==
  \A i \in 1..Len(ledger), f \in fields : ledger[i][f] # NoKey

\* block['timestamp'] / 1000 and the comparisons of the sort raise no
\* TypeError
Numbered(ledger) ==
  \A i \in 1..Len(ledger) : ledger[i].timestamp.ty = "int"

\* mutant: sorted ascending and then reversed
violations_Reversed(ledger) ==
  LET shown == [i \in 1..Len(ledger) |->
                  [id |-> ledger[i].index, timestamp |-> ledger[i].timestamp,
                   hash |-> ledger[i].hash]]
      earlier == [j \in 1..Len(ledger), i \in 1..Len(ledger) |->
                    DigitValue(ledger[j].timestamp)
                      < DigitValue(ledger[i].timestamp)]
      sorted == StableSort(shown, earlier)
  IN  [i \in 1..Len(sorted) |-> sorted[Len(sorted) + 1 - i]]

\* app.py:202-215: the violations, sorted by timestamp, newest first
violations(ledger) ==
  LET shown == [i \in 1..Len(ledger) |->
                  [id |-> ledger[i].index, timestamp |-> ledger[i].timestamp,
                   hash |-> ledger[i].hash]]
      later == [j \in 1..Len(ledger), i \in 1..Len(ledger) |->
                  DigitValue(ledger[j].timestamp)
                    > DigitValue(ledger[i].timestamp)]
  IN  StableSort(shown, later)

\* what a read request is answered when it fails
Failed(op, device_key, status) ==
  [op |-> op, key |-> device_key, status |-> status, total |-> -1,
   violations |-> <<>>, valid |-> "none"]

\* GET /api/dashboard/<device_key>, app.py:173-230, handled from start to end
dashboard_data(device_key) ==
  /\ view' =
       IF ~KeyOk[device_key] THEN Failed("dashboard", device_key, 400)
       ELSE IF files[device_file(device_key)] = NoFile
       THEN Failed("dashboard", device_key, 404)
       ELSE IF ~LoadOk(files[device_file(device_key)])
       THEN Failed("dashboard", device_key, 500)
       ELSE IF \/ verify_blockchain_integrity(
                    Load(files[device_file(device_key)]).blocks) = "KeyError"
               \/ ~HasAll(Load(files[device_file(device_key)]).blocks,
                          {"index", "deviceId", "appName", "keyword",
                           "timestamp", "hash"})
               \/ ~Numbered(Load(files[device_file(device_key)]).blocks)
       THEN Failed("dashboard", device_key, 500)
       ELSE [op |-> "dashboard", key |-> device_key, status |-> 200,
             total |-> Len(violations(
                         Load(files[device_file(device_key)]).blocks)),
             violations |->
               violations(Load(files[device_file(device_key)]).blocks),
             valid |-> verify_blockchain_integrity(
                         Load(files[device_file(device_key)]).blocks)]
  /\ UNCHANGED <<blocks, edits, files, clock, req, resp, verdict, threadVars,
                 keyVars, intelVars, heatVars, pipeVars>>

\* GET /api/stats/<device_key>, app.py:232-273
get_device_stats(device_key) ==
  /\ view' =
       IF files[device_file(device_key)] = NoFile
       THEN Failed("stats", device_key, 404)
       ELSE IF ~LoadOk(files[device_file(device_key)])
       THEN Failed("stats", device_key, 500)
       ELSE IF \/ ~HasAll(Load(files[device_file(device_key)]).blocks,
                          {"appName", "keyword", "timestamp"})
               \/ ~Numbered(Load(files[device_file(device_key)]).blocks)
       THEN Failed("stats", device_key, 500)
       ELSE [op |-> "stats", key |-> device_key, status |-> 200,
             total |-> Len(Load(files[device_file(device_key)]).blocks),
             violations |-> <<>>, valid |-> "none"]
  /\ UNCHANGED <<blocks, edits, files, clock, req, resp, verdict, threadVars,
                 keyVars, intelVars, heatVars, pipeVars>>

\* GET /api/verify/<device_key>, app.py:275-297
verify_blockchain(device_key) ==
  /\ view' =
       IF files[device_file(device_key)] = NoFile
       THEN Failed("verify", device_key, 404)
       ELSE IF ~LoadOk(files[device_file(device_key)])
       THEN Failed("verify", device_key, 500)
       ELSE IF verify_blockchain_integrity(
                 Load(files[device_file(device_key)]).blocks) = "KeyError"
       THEN Failed("verify", device_key, 500)
       ELSE [op |-> "verify", key |-> device_key, status |-> 200,
             total |-> Len(Load(files[device_file(device_key)]).blocks),
             violations |-> <<>>,
             valid |-> verify_blockchain_integrity(
                         Load(files[device_file(device_key)]).blocks)]
  /\ UNCHANGED <<blocks, edits, files, clock, req, resp, verdict, threadVars,
                 keyVars, intelVars, heatVars, pipeVars>>

\* ---------------------------------- the intelligence endpoints, by steps
\* the requests that load a profile, change it and write the whole of it back
Writers == {"POST_policy", "sync_intelligence", "generate_report"}

\* a thread takes a request for the profile of device_key
HandlerStart(t, op, device_key) ==
  /\ pc[t] = "idle"
  /\ clock < MaxSteps
  /\ files[device_file(device_key)] # NoFile
  /\ pc' = [pc EXCEPT ![t] = "load"]
  /\ job' = [job EXCEPT ![t] = [op |-> op, key |-> device_key,
                                content |-> <<>>, status |-> 0]]
  /\ UNCHANGED <<blocks, edits, files, clock, req, resp, verdict, fd, keyVars,
                 intelVars, endpointVars>>

\* analytics_processor.load_intelligence(device_key): app.py:537 and 432,
\* analytics.py:585 for the sync; without a profile the policy and the report
\* request answer 404
HandlerLoad(t) ==
  /\ pc[t] = "load"
  /\ IF load_intelligence(job[t].key) = NoProfile
        /\ job[t].op # "sync_intelligence"
     THEN /\ pc' = [pc EXCEPT ![t] = "idle"]
          /\ job' = [job EXCEPT ![t].status = 404]
     ELSE /\ pc' = [pc EXCEPT ![t] = IF job[t].op = "sync_intelligence"
                                     THEN "update" ELSE "save"]
          /\ job' = [job EXCEPT ![t].content = load_intelligence(job[t].key)]
  /\ UNCHANGED <<blocks, edits, files, clock, req, resp, verdict, fd, keyVars,
                 intelVars, endpointVars>>

\* analytics.py:598-701: the loaded profile is updated from the record and
\* saved
HandlerUpdate(t) ==
  /\ pc[t] = "update"
  /\ clock < MaxSteps
  /\ clock' = clock + 1
  /\ job' = [job EXCEPT ![t].content =
               <<Updated(job[t].key, job[t].content, clock + 1)>>]
  /\ intel_files' = [intel_files EXCEPT ![job[t].key] = job'[t].content]
  /\ pc' = [pc EXCEPT ![t] = "save"]
  /\ UNCHANGED <<blocks, edits, files, req, resp, verdict, fd, keyVars,
                 intelligence, blockchain_data, endpointVars>>

\* what the request has made of the profile it holds when it saves it:
\* app.py:560-573, app.py:365-398 with analytics.py:59-60, app.py:446-447
Changed(held, op, now) ==
  IF op = "POST_policy" THEN WithPolicy(held, "P1", now)
  ELSE IF op = "sync_intelligence"
  THEN LET starters ==
             generate_conversation_starters(Toned(held, Returned(80)))
       IN  Returned([Toned(held, Returned(80)) EXCEPT
                       !.conversationStarters = starters.value,
                       !.analyticsFiles = <<held.childProfile.deviceKey>>])
  ELSE Returned([held EXCEPT !.syntheticReport =
                   generate_behavioral_report(held, "raises", now).value])

\* save_intelligence(device_key, intelligence), analytics.py:35-40: the whole
\* of the profile the request holds is written back
HandlerSave(t) ==
  /\ pc[t] = "save"
  /\ clock < MaxSteps
  /\ clock' = clock + 1
  /\ IF Changed(job[t].content[1], job[t].op, clock + 1).raised # ""
     THEN /\ job' = [job EXCEPT ![t].status = 500]
          /\ UNCHANGED intel_files
     ELSE /\ job' = [job EXCEPT ![t].status = 200]
          /\ intel_files' =
               [intel_files EXCEPT ![job[t].key] =
                  Changed(job[t].content[1], job[t].op, clock + 1).value]
  /\ pc' = [pc EXCEPT ![t] = "idle"]
  /\ UNCHANGED <<blocks, edits, files, req, resp, verdict, fd, keyVars,
                 intelligence, blockchain_data, endpointVars>>

\* the verifier applied to the ledger, app.py:75-106
Verify ==
  /\ verdict = "none"
  /\ verdict' = verify_blockchain_integrity(blocks)
  /\ UNCHANGED <<endpointVars, blocks, edits, files, clock, req, resp, threadVars, keyVars,
               intelVars>>

\* ------------------------------------------------------------ specification
Start(policy_settings) ==
  /\ blocks = <<>>
  /\ edits = 0
  /\ files = [k \in KeyIds |-> NoFile]
  /\ clock = 0
  /\ req = NoReq
  /\ resp = NoResp
  /\ verdict = "none"
  /\ pc = [t \in Threads |-> "idle"]
  /\ job = [t \in Threads |-> NoJob]
  /\ fd = [t \in Threads |-> 0]
  /\ token = <<>>
  /\ accepted = "none"
  /\ intel_files = [k \in KeyIds |-> NoProfile]
  /\ intelligence = NoProfile
  /\ blockchain_data = [blocks |-> <<>>, integrity_verified |-> TRUE]
  /\ screen_time_data = [dailyScreenTime |-> <<>>]
  /\ heatmap_data = NoChart
  /\ intelligence_template = policy_settings
  /\ reports_dir = {}
  /\ call = NoCall
  /\ done = {}
  /\ view = NoView

\* the server starts over empty directories, with a template that has no
\* policySettings
Init == Start(Missing)

\* the devices and the /api/sync handler, one request at a time
Next ==
  \/ \E keyword \in {"k1"} : Mine(keyword)
  \/ \E i \in 1..Len(blocks), f \in SyncFields :
       \E v \in EditValues(blocks, i, f) : edits < MaxCorrupt /\ Tamper(i, f, v)
  \/ \E i \in 1..Len(blocks) :
       \E v \in EditValues(blocks, i, "index") :
         edits < MaxCorrupt /\ Renumber(i, v)
  \/ Reset
  \/ \E data \in Requests : sync_blockchain(data)

Spec == Init /\ [][Next]_vars

\* the verifier on the ledgers edits can produce
NextVerify ==
  \/ \E keyword \in {"k1"} : Mine(keyword)
  \/ \E i \in 1..Len(blocks), f \in Fields :
       \E v \in EditValues(blocks, i, f) : edits < MaxTamper /\ Tamper(i, f, v)
  \/ \E i \in 1..Len(blocks) : edits < MaxTamper /\ Remine(i)
  \/ Reset
  \/ Verify

SpecVerify == Init /\ [][NextVerify]_vars

\* the key validator on tokens of every shape
NextKey ==
  \/ \E n \in 1..MaxSegments, kind \in SegmentKinds :
       \E at \in 1..n : NewToken(TokenOf(n, at, kind))
  \/ \E text \in ShortTokens : NewToken(text)
  \/ Validate

SpecKey == Init /\ [][NextKey]_vars

\* the aggregator on short ledgers of every make and on long ones
NextAgg ==
  \/ \E b \in SmallBlocks : Record(b)
  \/ \E n \in LongLengths, shape \in LongShapes : Replay(n, shape)
  \/ \E device_key \in {"K1", "K2"} :
       update_behavioral_data_from_blockchain(device_key)

SpecAgg == Init /\ [][NextAgg]_vars

\* the heatmap on series of every make
NextHeat ==
  \/ \E peak_hours \in PeakHours : AddDay(peak_hours)
  \/ \E n \in DayCounts : LoadDays(n)
  \/ generate_sleep_time_heatmap

SpecHeat == Init /\ [][NextHeat]_vars

\* the keys of the requests to the intelligence endpoints
PipeKeys == {"K1", "K2"}

\* what policySettings the template may hold: the key missing, an empty
\* object, a policy without a history, a policy with an empty history
TemplateSettings ==
  {Missing,
   <<[currentPolicy |-> Missing, policyHistory |-> Missing,
      lastUpdated |-> Missing]>>,
   <<[currentPolicy |-> <<"P0">>, policyHistory |-> Missing,
      lastUpdated |-> Missing]>>,
   <<[currentPolicy |-> <<"P0">>, policyHistory |-> << <<>> >>,
      lastUpdated |-> Missing]>>}

InitPipe == \E policy_settings \in TemplateSettings : Start(policy_settings)

\* the ledger and intelligence endpoints, one request at a time: the device of
\* K1 syncs its ledger, the device of K2 never does, and the endpoints are
\* asked about both
NextPipe ==
  \/ \E keyword \in {JStr(<<"k1">>), JInt(Digit(5))} : MineValue(keyword)
  \/ sync_blockchain(DeviceRequest)
  \/ \E device_key \in PipeKeys : sync_intelligence(device_key, Returned(80))
  \/ \E device_key \in PipeKeys : get_intelligence_data(device_key)
  \/ \E device_key \in PipeKeys : get_conversation_starters(device_key)
  \/ \E device_key \in PipeKeys, method \in Methods :
       manage_policy(device_key, method, "P1")
  \/ \E device_key \in PipeKeys, rendered \in BOOLEAN :
       generate_report(device_key, "full", "object", rendered)
  \/ \E device_key \in PipeKeys, report_type \in ReportTypes :
       download_report(device_key, report_type)

SpecPipe == InitPipe /\ [][NextPipe]_vars

\* the store under sync requests alone: ledgers as mined and edited, sent
\* under two valid keys and an invalid one, or with a field missing
NextStore ==
  \/ MineValue(JStr(<<"k1">>))
  \/ \E i \in 1..Len(blocks), f \in SyncFields :
       \E v \in EditValues(blocks, i, f) : edits < MaxCorrupt /\ Tamper(i, f, v)
  \/ \E data \in StoreRequests : sync_blockchain(data)

SpecStore == Init /\ [][NextStore]_vars

\* the read endpoints over the store: ledgers of blocks recorded at equal and
\* at different times, as mined and with a keyword edited, stored under K1
\* and read under K1, under a key without record and under one of invalid
\* shape
NextRead ==
  \/ \E timestamp \in 1..2 : MineAt(timestamp)
  \/ \E i \in 1..Len(blocks) :
       \E v \in EditValues(blocks, i, "keyword") :
         edits < MaxCorrupt /\ Tamper(i, "keyword", v)
  \/ sync_blockchain(DeviceRequest)
  \/ \E device_key \in {"K1", "K2", "K17"} : dashboard_data(device_key)
  \/ \E device_key \in {"K1", "K2", "K17"} : get_device_stats(device_key)
  \/ \E device_key \in {"K1", "K2", "K17"} : verify_blockchain(device_key)

SpecRead == Init /\ [][NextRead]_vars

\* the policy of one device, over every template: its profile is made by an
\* intelligence sync and its policy read and replaced
NextPolicy ==
  \/ Mine("k1")
  \/ sync_blockchain(DeviceRequest)
  \/ sync_intelligence("K1", Returned(80))
  \/ \E method \in Methods, new_policy \in Bodies :
       manage_policy("K1", method, new_policy)
  \/ \E response \in {"raises", "object"} :
       generate_report("K1", "full", response, TRUE)

SpecPolicy == InitPipe /\ [][NextPolicy]_vars

\* the narrative of one device: its ledger, its profile and its reports under
\* every answer of the two services
NextNarr ==
  \/ MineValue(JStr(<<"k1">>))
  \/ sync_blockchain(DeviceRequest)
  \/ \E sentiment \in Sentiments : sync_intelligence("K1", sentiment)
  \/ \E response \in Responses, rendered \in BOOLEAN :
       generate_report("K1", "full", response, rendered)

SpecNarr == Init /\ [][NextNarr]_vars

\* the threaded server on the profile of one device: the ledger is stored
\* first, then requests that write the profile run with their steps
\* interleaved
NextRace ==
  \/ MineValue(JStr(<<"k1">>))
  \/ (\A t \in Threads : job[t].op = "none")
       /\ sync_blockchain(DeviceRequest)
  \/ \E t \in Threads, op \in Writers : HandlerStart(t, op, "K1")
  \/ \E t \in Threads : HandlerLoad(t)
  \/ \E t \in Threads : HandlerUpdate(t)
  \/ \E t \in Threads : HandlerSave(t)

SpecRace == Init /\ [][NextRace]_vars

\* the threaded server: requests for the same and for different keys, their
\* steps interleaved
NextConc ==
  \/ \E t \in Threads, k \in ConcKeys, ledger \in ConcLedgers :
       SyncStart(t, ConcRequest(k), ledger)
  \/ \E t \in Threads : SyncOpen(t)
  \/ \E t \in Threads, n \in 1..(MaxLen + 2) : SyncWrite(t, n)
  \/ \E t \in Threads, k \in ConcKeys : get_dashboard_data(t, k)

SpecConc == Init /\ [][NextConc]_vars

\* ------------------------------------------------ the verifier's contract
\* every block of the ledger has every field
WellFormed(ledger) ==
  \A i \in 1..Len(ledger), f \in Fields : ledger[i][f] # NoKey

\* the link of block i to its predecessor is broken
LinkBroken(ledger, i) == ledger[i].previousHash # ledger[i - 1].hash

\* the ledger with field f of block i replaced by v
Replaced(ledger, i, f, v) == [ledger EXCEPT ![i][f] = v]

\* C1 (as claimed): in a non-empty ledger that verifies true, replacing any
\* one field of any block, the genesis block included, by a different value
\* gives a ledger that does not verify true.
C1_TamperEvident ==
  (verdict = "True" /\ blocks # <<>>) =>
    \A i \in 1..Len(blocks), f \in Fields :
      \A v \in EditValues(blocks, i, f) \ {NoKey, blocks[i][f]} :
        verify_blockchain_integrity(Replaced(blocks, i, f, v)) # "True"

\* C2: a ledger in which some block after the first does not carry its
\* predecessor's hash as previousHash never verifies true, and verifies
\* false when all its fields are present, whatever that block's own hash is.
C2_LinkRequired ==
  (verdict # "none" /\ \E i \in 2..Len(blocks) : LinkBroken(blocks, i)) =>
    /\ verdict # "True"
    /\ WellFormed(blocks) => verdict = "False"

\* the verifier said false to a ledger whose only flaw is a broken link: the
\* block's own hash is the digest of its fields and meets the difficulty
C2_Witness ==
  /\ verdict = "False"
  /\ GenesisOk(blocks)
  /\ WellFormed(blocks)
  /\ \E i \in 2..Len(blocks) :
       /\ LinkBroken(blocks, i)
       /\ \A j \in 2..Len(blocks) :
            /\ HashOk(blocks[j]) /\ PowOk(blocks[j])
            /\ j # i => ~LinkBroken(blocks, j)

\* C3: a non-empty ledger whose first block's previousHash is not the string
\* "0" verifies false, however many blocks follow.
C3_GenesisSentinel ==
  (verdict # "none" /\ blocks # <<>> /\ blocks[1].previousHash # JStr(<<"0">>))
    => verdict = "False"

\* the verifier said false to a ledger of several blocks whose only flaw is
\* the first block's previousHash
C3_Witness ==
  /\ verdict = "False"
  /\ Len(blocks) >= 2
  /\ blocks[1].previousHash # JStr(<<"0">>)
  /\ WellFormed(blocks)
  /\ \A j \in 2..Len(blocks) :
       ~LinkBroken(blocks, j) /\ HashOk(blocks[j]) /\ PowOk(blocks[j])

\* C4 (as claimed): in a ledger that verifies true the hash of every block,
\* the genesis block included, starts with Difficulty zeros.
C4_PowEveryBlock ==
  verdict = "True" =>
    \A i \in 1..Len(blocks) :
      blocks[i].hash # NoKey /\ StartsWithZeros(Str(blocks[i].hash))

\* ------------------------------------------------ the contract of /api/sync
\* /api/sync has answered and the device has not moved on: blocks is the
\* ledger the request carried
Answered == resp # NoResp

\* the request carried both fields and a key of valid shape
KeyAccepted ==
  /\ req.data.has_key /\ req.data.has_data
  /\ validate_device_key(KeyText(req.data.device_key))

\* how many blocks the content of a file holds; -1 when it cannot be loaded
BlockCount(content) ==
  IF content # NoFile /\ LoadOk(content) THEN Len(Load(content).blocks)
  ELSE -1

\* C5: the key is validated before the ledger is verified and before any
\* write: an invalid key gets the invalid-key error whatever the ledger; a
\* valid key with a ledger that verifies false gets the integrity error; only
\* a request that passes both changes a file.
C5_SyncOrder ==
  Answered =>
    /\ ~(req.data.has_key /\ req.data.has_data)
         => resp.error = "missing_fields"
    /\ (req.data.has_key /\ req.data.has_data /\ ~KeyAccepted)
         => resp.error = "invalid_key"
    /\ (KeyAccepted /\ verify_blockchain_integrity(blocks) = "False")
         => resp.error = "integrity_failed"
    /\ (KeyAccepted /\ verify_blockchain_integrity(blocks) = "True")
         => resp.status = 200
    /\ files # req.before
         => /\ KeyAccepted
            /\ verify_blockchain_integrity(blocks) = "True"
            /\ resp.status = 200

\* a request whose key and ledger are both invalid got the invalid-key error
C5_Witness ==
  /\ Answered
  /\ resp.error = "invalid_key"
  /\ blocks # <<>>
  /\ verify_blockchain_integrity(blocks) = "False"

\* C6: a sync that is rejected writes nothing: every file is what it was
\* when the request arrived.
C6_RejectedWritesNothing ==
  (Answered /\ resp.status # 200) => files = req.before

\* a ledger whose first block alone would verify was rejected for a later
\* block while a record was stored under the key, and the record stayed
C6_Witness ==
  /\ Answered
  /\ resp.error = "integrity_failed"
  /\ Len(blocks) >= 2
  /\ verify_blockchain_integrity(SubSeq(blocks, 1, 1)) = "True"
  /\ req.before[device_file(req.data.device_key)] # NoFile
  /\ files = req.before

\* C7: after a successful sync of n blocks the record under the key holds
\* exactly the submitted blocks in order with integrity_verified true, and
\* the summary reports violations_count = n.
C7_SyncEffect ==
  (Answered /\ resp.status = 200) =>
    LET content == files[device_file(req.data.device_key)]
    IN  /\ content # NoFile
        /\ LoadOk(content)
        /\ Load(content).blocks = blocks
        /\ Load(content).integrity_verified = TRUE
        /\ Load(content).device_key = req.data.device_key
        /\ resp.violations_count = Len(blocks)

\* an untouched chain of three blocks was synced under an 18-segment key
C7_Witness ==
  /\ Answered
  /\ resp.status = 200
  /\ edits = 0
  /\ Len(blocks) = 3
  /\ Len(Split(KeyText(req.data.device_key), "-")) = 18
  /\ BlockCount(files[device_file(req.data.device_key)]) = 3

\* C8: after a successful sync the file of the key is the record of that
\* sync alone, whatever was stored before; the stored block count can
\* decrease.
C8_FullReplacement ==
  (Answered /\ resp.status = 200) =>
    files[device_file(req.data.device_key)]
      = Dump(storage_data(req.data, blocks, clock))

\* a shorter chain replaced a longer stored one
C8_Witness ==
  /\ Answered
  /\ resp.status = 200
  /\ BlockCount(req.before[device_file(req.data.device_key)]) > Len(blocks)
  /\ BlockCount(files[device_file(req.data.device_key)]) = Len(blocks)

\* ------------------------------------------- the contract under concurrency
\* thread u is a sync for key k that passed validation and verification
SyncFor(u, k) ==
  job[u].op = "sync" /\ job[u].key = k /\ pc[u] \in {"open", "write", "done"}
    /\ job[u].status \in {0, 200}

\* C9 (as claimed): whatever a dashboard request finds in the file of a key
\* is the complete record of exactly one sync for that key.
C9_AtomicRecord ==
  \A t \in Threads :
    (job[t].op = "dashboard" /\ job[t].status \in {200, 500}) =>
      \E u \in Threads : SyncFor(u, job[t].key) /\ job[t].content = job[u].content

\* C10: a file changes only in a step of a sync for the key the file belongs
\* to; a sync for another key, accepted or rejected, leaves it as it is.
C10_KeyIndependence ==
  [][\A k \in KeyIds :
       files'[k] # files[k] =>
         \E t \in Threads :
           /\ job[t].key = k
           /\ pc[t] \in {"open", "write"}
           /\ pc'[t] # pc[t] \/ fd'[t] # fd[t]]_vars

\* a sync for one key has written part of its record while a sync for another
\* key ran from start to end: the second key's file holds its whole record
C10_Witness ==
  \E t \in Threads, u \in Threads :
    /\ job[t].key # job[u].key
    /\ SyncFor(t, job[t].key) /\ pc[t] = "write" /\ fd[t] > 0
    /\ SyncFor(u, job[u].key) /\ pc[u] = "done"
    /\ files[job[u].key] = job[u].content
    /\ files[job[t].key] = SubSeq(job[t].content, 1, fd[t])

\* ------------------------------------------------ the key validator's contract
\* text is eighteen groups of eight hex characters with a hyphen between
\* neighbouring groups: every ninth character is the hyphen
WellShaped(text) ==
  /\ Len(text) = 161
  /\ \A p \in 1..Len(text) :
       IF p % 9 = 0 THEN text[p] = "-" ELSE text[p] \in HexChars

\* C11: validate_device_key returns true exactly for the override token and
\* for the tokens of 18 hyphen-separated segments of 8 hex characters each.
C11_KeyShape ==
  accepted # "none" =>
    (accepted = "True" <=> (token = BYPASS_KEY \/ WellShaped(token)))

\* a token of 18 segments, all of hex characters, was rejected for one
\* segment of seven characters
C11_Witness ==
  /\ accepted = "False"
  /\ LET key_segments == Split(token, "-")
     IN  /\ Len(key_segments) = 18
         /\ \E n \in 1..18 :
              /\ Len(key_segments[n]) = 7
              /\ \A m \in (1..18) \ {n} : Len(key_segments[m]) = 8
         /\ \A n \in 1..18 : \A j \in 1..Len(key_segments[n]) :
              key_segments[n][j] \in HexChars

\* ------------------------------------------------ resubmission
\* the record a file holds with its last_sync left out
LessLastSync(content) == [Load(content) EXCEPT !.last_sync = 0]

\* the request /api/sync answered last found, under its key, a record of the
\* very blocks and app version it carried: it resubmits that sync
Resubmitted ==
  /\ Answered
  /\ KeyAccepted
  /\ LET before == req.before[device_file(req.data.device_key)]
     IN  /\ before # NoFile
         /\ LoadOk(before)
         /\ Load(before).blocks = blocks
         /\ Load(before).app_version = req.data.app_version

\* C12: a valid ledger submitted again under the same key succeeds again, and
\* the record stored afterwards equals the one stored before in every field
\* but last_sync.
C12_Idempotent ==
  Resubmitted =>
    /\ resp.status = 200
    /\ LoadOk(files[device_file(req.data.device_key)])
    /\ LessLastSync(files[device_file(req.data.device_key)])
         = LessLastSync(req.before[device_file(req.data.device_key)])

\* a chain of several blocks was resubmitted and stored with a later
\* last_sync
C12_Witness ==
  /\ Resubmitted
  /\ resp.status = 200
  /\ Len(blocks) >= 2
  /\ Load(files[device_file(req.data.device_key)]).last_sync
       > Load(req.before[device_file(req.data.device_key)]).last_sync

\* ------------------------------------------------ no false rejection
\* the ledger is empty, or: it starts from the sentinel, every later block
\* carries its predecessor's hash, and every block's hash is the digest of
\* its fields and meets the difficulty
ValidLedger(ledger) ==
  \/ ledger = <<>>
  \/ /\ WellFormed(ledger)
     /\ ledger[1].previousHash = JStr(<<"0">>)
     /\ \A i \in 2..Len(ledger) : ~LinkBroken(ledger, i)
     /\ \A i \in 1..Len(ledger) :
          /\ ledger[i].hash = JStr(Sha256Hex(BlockString(ledger[i])))
          /\ StartsWithZeros(Str(ledger[i].hash))

\* C13: the empty ledger verifies true, and so does every ledger that starts
\* from the sentinel, is linked block to block, and whose every hash is the
\* digest of its block and meets the difficulty.
C13_NoFalseRejection ==
  (verdict # "none" /\ ValidLedger(blocks)) => verdict = "True"

\* a chain of several blocks that was edited and mined again verified true
C13_Witness ==
  /\ verdict = "True"
  /\ Len(blocks) >= 2
  /\ edits > 0
  /\ ValidLedger(blocks)
  /\ blocks # Chain(Len(blocks))

\* ------------------------------------------------ block indices
\* C14 (as claimed): in every stored ledger the block at position i carries
\* the number i as its index, counting from 0.
C14_IndexInvariant ==
  \A k \in KeyIds :
    (files[k] # NoFile /\ LoadOk(files[k])) =>
      \A i \in 1..Len(Load(files[k]).blocks) :
        Load(files[k]).blocks[i].index = JInt(Digit(i - 1))

\* ------------------------------------------------ the cause of a rejection
\* the ledger stored under the key of the request when it arrived
StoredBefore == Load(req.before[device_file(req.data.device_key)]).blocks

\* /api/sync has answered a request that resubmits a stored, valid chain of
\* three blocks with the keyword of its second block changed and nothing else
KeywordCorrupted ==
  /\ Answered
  /\ KeyAccepted
  /\ req.before[device_file(req.data.device_key)] # NoFile
  /\ LoadOk(req.before[device_file(req.data.device_key)])
  /\ Len(StoredBefore) = 3
  /\ ValidLedger(StoredBefore)
  /\ Len(blocks) = 3
  /\ blocks # StoredBefore
  /\ blocks[2].keyword # NoKey
  /\ blocks = Replaced(StoredBefore, 2, "keyword", blocks[2].keyword)

\* ledgers that fail for the other causes: the genesis sentinel, a broken
\* link, and a hash that is the digest of its block but misses the difficulty
GenesisMismatch(ledger) == Replaced(ledger, 1, "previousHash", FakeHash)
HashLinkBroken(ledger) == Replaced(ledger, 2, "previousHash", FakeHash)
DifficultyNotMet(ledger) ==
  LET b == [ledger[2] EXCEPT !.keyword = JStr(<<"k2">>)]
  IN  [ledger EXCEPT ![2] = [b EXCEPT !.hash = JStr(Sha256Hex(BlockString(b)))]]

\* C15 (as claimed): the resubmission with a corrupted keyword is rejected
\* with an error of its own (HASH_MISMATCH), which is not the error given for
\* a genesis mismatch, a broken link or an unmet difficulty, and the stored
\* record stays as it was.
C15_CauseCarried ==
  KeywordCorrupted =>
    /\ resp.status = 400
    /\ files = req.before
    /\ \A other \in {GenesisMismatch(StoredBefore), HashLinkBroken(StoredBefore),
                      DifficultyNotMet(StoredBefore)} :
         Answer(req.data, other).status = 400
           => Answer(req.data, other).error # resp.error

\* the part of C15 the handler does meet: the resubmission is rejected and
\* the stored record stays as it was
C15_Rejected ==
  KeywordCorrupted => (resp.status = 400 /\ files = req.before)

\* ------------------------------------------------ the aggregator's contract
\* the aggregator has returned a profile for the stored record
Aggregated == intelligence # NoProfile

\* the profile it returned, its behavioural data, and the blocks it was handed
Profile == intelligence[1]
Behavioral == intelligence[1].behavioralData
Ledger == blockchain_data.blocks

\* C16 (as claimed): what the aggregator returns for a stored ledger is the
\* same whatever profile was stored for the key before and whatever the time
\* of the call, so that a second run on the same ledger returns the same.
C16_PureFunction ==
  Aggregated =>
    \A now \in 0..MaxClock :
      \A stored \in {NoProfile} \cup {intel_files[k] : k \in {"K1", "K2"}} :
        UpdatedIntelligence(Profile.childProfile.deviceKey, blockchain_data,
                            stored, now) = Profile

\* the position at which value v first stands in the sequence values
FirstSeen(values, v) ==
  CHOOSE i \in 1..Len(values) :
    values[i] = v /\ \A j \in 1..(i - 1) : values[j] # v

\* how many times v stands in values
Occurrences(values, v) == Cardinality({i \in 1..Len(values) : values[i] = v})

\* the set of the values of a sequence
Range(values) == {values[i] : i \in 1..Len(values)}

\* ranking of sequence `names` (each with its `counts`) against the sequence
\* `values` it was counted from, with at most `limit` entries: one entry per
\* distinct value, each with the number of its occurrences, more occurrences
\* first and among equals the value seen first, and no value left out that
\* would rank before the last entry
Ranked(names, counts, values, limit) ==
  LET n == Len(names)
      first == <<>> \o [p \in 1..n |-> FirstSeen(values, names[p])]
      before(c1, f1, c2, f2) == c1 > c2 \/ (c1 = c2 /\ f1 < f2)
  IN  /\ n = Min(limit, Cardinality(Range(values)))
      /\ \A p \in 1..n : names[p] \in Range(values)
      /\ \A p \in 1..n : counts[p] = Occurrences(values, names[p])
      /\ \A p \in 1..(n - 1) :
           before(counts[p], first[p], counts[p + 1], first[p + 1])
      /\ \A v \in Range(values) \ Range(names) :
           before(counts[n], first[n], Occurrences(values, v),
                  FirstSeen(values, v))

\* C17: searchedKeywords has min(100, distinct keywords) entries, one per
\* distinct keyword with its number of blocks as frequency, the more frequent
\* first and equal frequencies in the order first seen in the chain.
C17_KeywordRanking ==
  Aggregated =>
    Ranked([p \in 1..Len(Behavioral.searchedKeywords) |->
              Behavioral.searchedKeywords[p].keyword],
           [p \in 1..Len(Behavioral.searchedKeywords) |->
              Behavioral.searchedKeywords[p].frequency],
           Keywords(Ledger), TopKeywords)

\* a ledger of more than 100 blocks, each with a keyword of its own, gave the
\* keywords of its first 100 blocks in chain order
C17_Witness ==
  /\ Aggregated
  /\ Len(Ledger) > TopKeywords
  /\ Cardinality(Range(Keywords(Ledger))) = Len(Ledger)
  /\ Len(Behavioral.searchedKeywords) = TopKeywords
  /\ \A p \in 1..TopKeywords :
       Behavioral.searchedKeywords[p].keyword = Keywords(Ledger)[p]

\* C18: mostUsedApps has min(20, distinct app names) entries, each with its
\* number of blocks as usageCount, the more used first and equal counts in
\* the order first seen; the counts sum to at most the number of blocks, and
\* to exactly that number when there are at most 20 distinct apps.
C18_UsageRanking ==
  Aggregated =>
    LET apps == Behavioral.mostUsedApps
        total == SumMinutes([p \in 1..Len(apps) |-> [minutes |-> apps[p].usageCount]],
                            1, Len(apps))
    IN  /\ Ranked([p \in 1..Len(apps) |-> apps[p].appName],
                   [p \in 1..Len(apps) |-> apps[p].usageCount],
                   AppNames(Ledger), TopApps)
        /\ total <= Len(Ledger)
        /\ Cardinality(Range(AppNames(Ledger))) <= TopApps => total = Len(Ledger)

\* a ledger with more than 20 apps, used unevenly, gave 20 entries that do
\* not cover all its blocks, an app seen later standing before one used less
C18_Witness ==
  /\ Aggregated
  /\ Cardinality(Range(AppNames(Ledger))) > TopApps
  /\ Len(Behavioral.mostUsedApps) = TopApps
  /\ \E p \in 1..(TopApps - 1) :
       /\ Behavioral.mostUsedApps[p].usageCount
            > Behavioral.mostUsedApps[p + 1].usageCount
       /\ FirstSeen(AppNames(Ledger), Behavioral.mostUsedApps[p].appName)
            > FirstSeen(AppNames(Ledger), Behavioral.mostUsedApps[p + 1].appName)

\* the chart's points for the profile returned
Points == generate_blocked_attempts_scatter(Behavioral.blockedNSFWAttempts)

\* C19 (as claimed): the blocked-attempt series of a ledger of n blocks has
\* min(n, 100) points, the points of the first 100 blocks in chain order,
\* each with its block's keyword.
C19_BlockedSeries ==
  Aggregated =>
    /\ Len(Points) = Min(Len(Ledger), ScatterLimit)
    /\ \A p \in 1..Len(Points) :
         /\ Points[p].y = p
         /\ Points[p].keyword = Keywords(Ledger)[p]

\* the same of the attempts the profile stores
C19_StoredSeries ==
  Aggregated =>
    Len(Behavioral.blockedNSFWAttempts) = Min(Len(Ledger), ScatterLimit)

\* the part of C19 the code does meet: of the first 100 blocks, those with a
\* timestamp other than 0 give the points, in chain order and with their
\* keywords, and no later block gives one
C19_StampedSeries ==
  Aggregated =>
    LET stamped(i) == Truthy(Timestamps(Ledger)[i])
        at == SelectSeq([i \in 1..Min(Len(Ledger), ScatterLimit) |-> i], stamped)
    IN  /\ Len(Points) = Len(at)
        /\ \A p \in 1..Len(Points) :
             /\ Points[p].y = at[p]
             /\ Points[p].keyword = Keywords(Ledger)[at[p]]

\* the calendar date of every block of the ledger, and the day it lies on
Dates(ledger) ==
  [i \in 1..Len(ledger) |-> strftime(Timestamps(ledger)[i])]
DayOf(ledger, date) ==
  CHOOSE d \in {Timestamps(ledger)[i].sec \div 86400 : i \in 1..Len(ledger)} :
    \E i \in 1..Len(ledger) :
      Timestamps(ledger)[i].sec \div 86400 = d /\ Dates(ledger)[i] = date

\* series is the daily series of the blocks at the positions `counted` of
\* the ledger: one entry per date on which one of them falls, with 2 minutes
\* per block of that date, in ascending order of the days, the most recent
\* 30 dates only; the minutes of a series that leaves no date out add up to
\* 2 per block
DailySeriesOf(series, ledger, counted) ==
  LET mine == [n \in 1..Len(counted) |-> Dates(ledger)[counted[n]]]
      kept == {series[p].date : p \in 1..Len(series)}
  IN  /\ Len(series) = Min(KeepDays, Cardinality(Range(mine)))
      /\ \A p \in 1..Len(series) :
           /\ series[p].date \in Range(mine)
           /\ series[p].minutes = MinutesPerBlock * Occurrences(mine, series[p].date)
      /\ \A p \in 1..(Len(series) - 1) :
           DayOf(ledger, series[p].date) < DayOf(ledger, series[p + 1].date)
      /\ \A v \in Range(mine) \ kept :
           DayOf(ledger, v) < DayOf(ledger, series[1].date)
      /\ Cardinality(Range(mine)) <= KeepDays
           => SumMinutes(series, 1, Len(series)) = MinutesPerBlock * Len(counted)

\* C20 (as claimed): dailyScreenTime is the daily series of all the blocks
\* of the ledger.
C20_DailySeries ==
  Aggregated =>
    DailySeriesOf(Behavioral.screenTimeData.dailyScreenTime, Ledger,
                  [i \in 1..Len(Ledger) |-> i])

\* the part of C20 the code does meet: dailyScreenTime is the daily series
\* of the blocks with a timestamp other than 0
C20_StampedSeries ==
  Aggregated =>
    LET stamped(i) == Truthy(Timestamps(Ledger)[i])
    IN  DailySeriesOf(Behavioral.screenTimeData.dailyScreenTime, Ledger,
                      SelectSeq([i \in 1..Len(Ledger) |-> i], stamped))

\* the average the claims speak of: floor(sum of minutes / number of days)
\* over the entries of a daily series, 0 for an empty one
AverageOf(series) ==
  IF series = <<>> THEN 0
  ELSE SumMinutes(series, 1, Len(series)) \div Len(series)

\* C21 (as claimed): weeklyAverage is the average of the days dailyScreenTime
\* keeps (the most recent 30), 0 when the series is empty.
C21_WeeklyAverage ==
  Aggregated =>
    Behavioral.screenTimeData.weeklyAverage
      = AverageOf(Behavioral.screenTimeData.dailyScreenTime)

\* the part of C21 the code does meet: weeklyAverage is the average over
\* every date of the ledger, the dates dailyScreenTime dropped included
C21_AverageOfAllDays ==
  Aggregated =>
    Behavioral.screenTimeData.weeklyAverage
      = AverageOf(screen_time_entries(Ledger))

\* the sum of the numbers of a list
RECURSIVE SumOf(_)
SumOf(numbers) ==
  IF numbers = <<>> THEN 0 ELSE Head(numbers) + SumOf(Tail(numbers))

\* the hours of a day that fall on slot s: the hours from 21:00 on count from
\* slot 0, those before 07:00 from slot 3
HoursOnSlot(day, s) ==
  {p \in 1..Len(day.peakHours) :
     \/ day.peakHours[p] >= 21 /\ day.peakHours[p] - 21 = s
     \/ day.peakHours[p] < 7 /\ day.peakHours[p] + 3 = s}

\* C22: the heatmap has a row for each of the last 14 days of the series, in
\* their order and with their dates; a row has 10 slots, slot s counting the
\* peak hours h with h >= 21 and h - 21 = s or h < 7 and h + 3 = s, so that
\* the hours 7..20 count nowhere, the slots of a day add up to the number of
\* its peak hours from 21:00 to 06:59, and peakHours = [22, 2, 10] fills the
\* slots 1 and 5 and no other.
C22_SleepHeatmap ==
  heatmap_data # NoChart =>
    LET days == screen_time_data.dailyScreenTime
        rows == heatmap_data.data
    IN  /\ Len(rows) = Min(14, Len(days))
        /\ \A r \in 1..Len(rows) :
             LET day == days[Len(days) - Len(rows) + r]
                 slots == rows[r].activity
             IN  /\ rows[r].date = day.date
                 /\ Len(slots) = 10
                 /\ \A s \in 0..9 :
                      slots[s + 1] = Cardinality(HoursOnSlot(day, s))
                 /\ SumOf(slots)
                      = Cardinality({p \in 1..Len(day.peakHours) :
                           day.peakHours[p] >= 21 \/ day.peakHours[p] < 7})
                 /\ day.peakHours = <<22, 2, 10>>
                      => {s \in 0..9 : slots[s + 1] # 0} = {1, 5}

\* a heatmap of a series of more than 14 days, with a day that has an hour
\* after midnight and one in the evening
C22_Witness ==
  /\ heatmap_data # NoChart
  /\ Len(screen_time_data.dailyScreenTime) > 14
  /\ Len(heatmap_data.data) = 14
  /\ \E r \in 1..14 :
       /\ heatmap_data.data[r].activity[1 + 1] > 0
       /\ \E s \in 3..9 : heatmap_data.data[r].activity[s + 1] > 0

\* the last request was op for device_key
Called(op, device_key) == call.op = op /\ call.key = device_key

\* ------------------------------------------------- the profile as a cache
\* the key has a profile that was synced after its record was last written
Current(device_key) ==
  /\ intel_files[device_key] # NoProfile
  /\ files[device_file(device_key)] # NoFile
  /\ LoadOk(files[device_file(device_key)])
  /\ intel_files[device_key][1].metadata.lastSync
       > Load(files[device_file(device_key)]).last_sync

\* two profiles hold the same data, the times of creation and of the last
\* sync aside
SameData(a, b) ==
  /\ a.behavioralData = b.behavioralData
  /\ a.policySettings = b.policySettings
  /\ a.syntheticReport = b.syntheticReport
  /\ a.conversationStarters = b.conversationStarters
  /\ a.analyticsFiles = b.analyticsFiles
  /\ a.metadata.totalViolations = b.metadata.totalViolations
  /\ a.metadata.integrityVerified = b.metadata.integrityVerified

\* the profile an intelligence sync makes at the time of the stored one's
\* last sync once the stored one is deleted
Rebuilt(device_key, sentiment) ==
  Synced(device_key, NoProfile, sentiment,
         intel_files[device_key][1].metadata.lastSync).saved

\* C23 (as claimed): at every reachable state, policy updates and report
\* generation included, the profile of a key that is in step with the key's
\* DeviceRecord holds only data that deleting it and running the intelligence
\* sync again brings back from the record.
C23_RebuildableCache ==
  \A device_key \in PipeKeys :
    Current(device_key) =>
      \E sentiment \in Sentiments :
        SameData(intel_files[device_key][1], Rebuilt(device_key, sentiment))

\* what the code does keep: a profile only intelligence syncs have written is
\* brought back by a sync from the record
C23_SyncAlone ==
  \A device_key \in PipeKeys :
    (/\ Current(device_key)
     /\ intel_files[device_key][1].policySettings = intelligence_template
     /\ intel_files[device_key][1].syntheticReport = Missing) =>
      \E sentiment \in Sentiments :
        SameData(intel_files[device_key][1], Rebuilt(device_key, sentiment))

\* an intelligence sync has made a profile from a record with blocks
C23_Synced ==
  /\ Current("K1")
  /\ intel_files["K1"][1].behavioralData.searchedKeywords # <<>>
  /\ call.op = "sync_intelligence" /\ call.status = 200

\* ------------------------------------------------ the narrative fallback
\* what the narrative service does when it fails
Failures == {"raises", "unparseable"}

\* the report is the fallback's and tells the numbers of the summary
FromSummary(report, about) ==
  /\ report.source = "fallback"
  /\ report.reportId[1] = "RPT-FALLBACK"
  /\ report.executiveSummary.totalApps = about.totalApps
  /\ report.executiveSummary.totalKeywords = about.totalKeywords
  /\ report.keyFindings.screenTimeWeekly = about.screenTimeWeekly
  /\ report.emotionalTrends # Missing
  /\ report.emotionalTrends[1].wellnessScore = about.emotionalTone
  /\ report.conversationStarters.app =
       FirstOr(about.topApps, JStr(<<"various apps">>))
  /\ report.conversationStarters.keyword =
       FirstOr(about.recentKeywords, JStr(<<"different topics">>))

\* generate_behavioral_report returns a report of the summary for every
\* stored profile when the service fails
FallbackReturned ==
  \A device_key \in PipeKeys, response \in Failures :
    intel_files[device_key] # NoProfile =>
      LET report == generate_behavioral_report(intel_files[device_key][1],
                                               response, clock)
      IN  /\ report.raised = ""
          /\ report.value # Missing
          /\ FromSummary(report.value[1], summary(intel_files[device_key][1]))

\* a report request on a stored profile has left a report made after the
\* profile's last sync in the profile as syntheticReport, and a fallback
\* report tells the summary of the profile it is stored in
FallbackStored ==
  (call.op = "generate_report" /\ call.status # 404) =>
    LET stored == intel_files[call.key][1]
    IN  /\ stored.syntheticReport # Missing
        /\ stored.syntheticReport[1].generatedAt > stored.metadata.lastSync
        /\ stored.syntheticReport[1].source = "fallback" =>
             FromSummary(stored.syntheticReport[1], summary(stored))

TrendDirections == {"improving", "stable", "declining", "fluctuating"}
ConcernLevels == {"none", "minimal", "moderate", "elevated", "critical"}

\* the fallback reports of the stored profiles
FallbackReports ==
  {intel_files[device_key][1].syntheticReport[1] :
     device_key \in {k \in PipeKeys :
                       /\ intel_files[k] # NoProfile
                       /\ intel_files[k][1].syntheticReport # Missing
                       /\ intel_files[k][1].syntheticReport[1].source
                            = "fallback"}}

\* C25 (as claimed): for every wellness score from 0 to 100 the fallback
\* report's trendDirection is one of improving, stable, declining and
\* fluctuating and its concernLevel one of none, minimal, moderate, elevated
\* and critical.
C25_FallbackShape ==
  \A report \in FallbackReports :
    /\ report.emotionalTrends[1].wellnessScore \in 0..100
    /\ report.emotionalTrends[1].trendDirection \in TrendDirections
    /\ report.emotionalTrends[1].concernLevel \in ConcernLevels

\* what the code does keep: the concern level is one of the five for every
\* score, and the trend one of the four for a score of 40 and more
C25_ShapeFromModerate ==
  \A report \in FallbackReports :
    /\ report.emotionalTrends[1].wellnessScore \in 0..100
    /\ report.emotionalTrends[1].concernLevel \in ConcernLevels
    /\ report.emotionalTrends[1].wellnessScore >= ScoreModerate =>
         report.emotionalTrends[1].trendDirection \in TrendDirections

\* a fallback report is stored for a score on the threshold of 40
C25_Scores ==
  /\ FallbackReports # {}
  /\ \A report \in FallbackReports :
       report.emotionalTrends[1].wellnessScore = ScoreModerate

\* ------------------------------------------------ the stored ledgers
\* the record stored for a key says it is verified, and its blocks verify
StoredVerified(k) ==
  /\ LoadOk(files[device_file(k)])
  /\ Load(files[device_file(k)]).integrity_verified = TRUE
  /\ verify_blockchain_integrity(Load(files[device_file(k)]).blocks) = "True"

\* C26: after any sequence of sync requests, valid and invalid, repeated and
\* for any keys, every DeviceRecord in the store has integrity_verified true
\* and a block list for which verify_blockchain_integrity returns true.
C26_StoredLedgers ==
  \A k \in KeyIds : files[device_file(k)] # NoFile => StoredVerified(k)

\* two keys have records in the store and the last request, carrying a
\* ledger that does not verify, was refused
C26_Witness ==
  /\ files[device_file("K1")] # NoFile /\ files[device_file("K2")] # NoFile
  /\ \A k \in KeyIds : files[device_file(k)] # NoFile => StoredVerified(k)
  /\ resp.status = 400 /\ resp.error = "integrity_failed"
  /\ req.before = files
  /\ \E k \in KeyIds :
       /\ files[device_file(k)] # NoFile
       /\ Load(files[device_file(k)]).blocks # <<>>

\* ------------------------------------------------ policy and sync together
\* both requests have finished: a policy POST that answered 200 and a sync or
\* a report request that ran while it ran
BothFinished(t, u) ==
  /\ t # u
  /\ pc[t] = "idle" /\ pc[u] = "idle"
  /\ job[t].op = "POST_policy" /\ job[t].status = 200
  /\ job[u].op \in {"sync_intelligence", "generate_report"}
  /\ job[u].status = 200

\* the stored profile of the key has the posted policy and a history entry
PolicyKept(device_key) ==
  /\ intel_files[device_key] # NoProfile
  /\ intel_files[device_key][1].policySettings # Missing
  /\ intel_files[device_key][1].policySettings[1].currentPolicy = <<"P1">>
  /\ intel_files[device_key][1].policySettings[1].policyHistory # Missing
  /\ intel_files[device_key][1].policySettings[1].policyHistory[1] # <<>>

\* C27 (as claimed): for every interleaving of a policy POST with an
\* intelligence sync or a report generation on the same key, once both have
\* finished the policy of the POST that answered 200 is the profile's
\* currentPolicy and its history entry is in policyHistory.
C27_NoLostUpdate ==
  \A t \in Threads, u \in Threads : BothFinished(t, u) => PolicyKept("K1")

\* both requests have finished and the policy is kept: an interleaving in
\* which the sync loaded the profile after the POST saved it
C27_Kept ==
  \E t \in Threads, u \in Threads : BothFinished(t, u) /\ PolicyKept("K1")

\* ------------------------------------------------ the order of the pipeline
\* the requests that need the profile of the key
Readers ==
  {"get_intelligence_data", "get_conversation_starters", "GET_policy",
   "POST_policy", "generate_report"}

\* C28 (as claimed): for every key, intelligence sync answers 404 until a
\* ledger sync has succeeded for the key; intelligence read, policy,
\* conversation-starter and report-generate requests answer 404 until an
\* intelligence sync has succeeded; report download answers 404 until a
\* report generation has succeeded; so a successful download comes after a
\* successful generate, that after a successful intelligence sync, and that
\* after a successful ledger sync for the key.
C28_PipelineOrder ==
  \A device_key \in PipeKeys :
    /\ (Called("sync_intelligence", device_key)
          /\ files[device_file(device_key)] = NoFile) => call.status = 404
    /\ \A op \in Readers :
         (Called(op, device_key)
            /\ <<"sync_intelligence", device_key>> \notin done) =>
           call.status = 404
    /\ (Called("download_report", device_key)
          /\ <<"generate_report", device_key>> \notin done) =>
         call.status = 404
    /\ <<"download_report", device_key>> \in done =>
         <<"generate_report", device_key>> \in done
    /\ <<"generate_report", device_key>> \in done =>
         <<"sync_intelligence", device_key>> \in done
    /\ <<"sync_intelligence", device_key>> \in done =>
         files[device_file(device_key)] # NoFile

\* what the code does keep: the requests answer 404 until the step before has
\* left its file, whatever that step answered
C28_OrderOfFiles ==
  \A device_key \in PipeKeys :
    /\ (Called("sync_intelligence", device_key)
          /\ files[device_file(device_key)] = NoFile) => call.status = 404
    /\ \A op \in Readers :
         (Called(op, device_key) /\ intel_files[device_key] = NoProfile) =>
           call.status = 404
    /\ intel_files[device_key] # NoProfile =>
         files[device_file(device_key)] # NoFile
    /\ (Called("download_report", device_key)
          /\ <<"generate_report", device_key>> \notin done) =>
         call.status = 404
    /\ <<"download_report", device_key>> \in done =>
         /\ <<"generate_report", device_key>> \in done
         /\ intel_files[device_key] # NoProfile

\* ------------------------------------------------ the history of policies
\* the policyHistory of a profile, empty when the profile has none
History(intelligence_data) ==
  IF intelligence_data.policySettings = Missing THEN <<>>
  ELSE IF intelligence_data.policySettings[1].policyHistory = Missing THEN <<>>
  ELSE intelligence_data.policySettings[1].policyHistory[1]

\* this step is a policy POST for the key
PostStep(device_key) ==
  /\ call'.op = "POST_policy" /\ call'.key = device_key
  /\ call' # call \/ intel_files' # intel_files

\* the profile after is the profile before with one entry more in the
\* history, holding the policy that was current, and with the posted policy
Appended(before, after, new_policy) ==
  /\ after.policySettings # Missing
  /\ after.policySettings[1].currentPolicy = <<new_policy>>
  /\ after.policySettings[1].policyHistory # Missing
  /\ Len(History(after)) = Len(History(before)) + 1
  /\ SubSeq(History(after), 1, Len(History(before))) = History(before)
  /\ History(after)[Len(History(after))].policy = current_policy(before)
  /\ after.behavioralData = before.behavioralData
  /\ after.childProfile = before.childProfile
  /\ after.metadata = before.metadata
  /\ after.syntheticReport = before.syntheticReport
  /\ after.conversationStarters = before.conversationStarters

\* a policy POST on the profile of K1 with an empty body changes nothing, and
\* one with a policy succeeds and appends
PostAppends ==
  (intel_files["K1"] # NoProfile /\ PostStep("K1")) =>
    IF Falsy(call'.body)
    THEN call'.status = 400 /\ intel_files' = intel_files
    ELSE /\ call'.status = 200
         /\ Appended(intel_files["K1"][1], intel_files'["K1"][1], call'.body)

SuccessAppends ==
  (intel_files["K1"] # NoProfile /\ PostStep("K1")) =>
    IF call'.status = 200
    THEN Appended(intel_files["K1"][1], intel_files'["K1"][1], call'.body)
    ELSE intel_files' = intel_files

\* what the code does keep: the policy POSTs that succeed append, the others
\* change nothing
C29_SuccessfulPost == [][SuccessAppends]_vars

\* a second policy was posted: the history holds the policy of the first
C29_SecondPost ==
  /\ Called("POST_policy", "K1") /\ call.status = 200 /\ call.body = "P2"
  /\ Len(History(intel_files["K1"][1])) >= 2
  /\ History(intel_files["K1"][1])[Len(History(intel_files["K1"][1]))].policy
       = "P1"

\* ------------------------------------------------ the read endpoints' frame
\* this step is a read request
ReadStep == view' # view

\* the position in the chain of the block a violation shows
ChainPos(violation) == DigitValue(violation.id) + 1

\* the violations are the blocks of the ledger, each once, newest first, and
\* those of equal timestamp in the order of the chain
NewestFirst(shown, ledger) ==
  /\ Len(shown) = Len(ledger)
  /\ {ChainPos(shown[p]) : p \in 1..Len(shown)} = 1..Len(ledger)
  /\ \A p \in 1..Len(shown) :
       /\ shown[p].timestamp = ledger[ChainPos(shown[p])].timestamp
       /\ shown[p].hash = ledger[ChainPos(shown[p])].hash
  /\ \A p \in 1..Len(shown), q \in 1..Len(shown) :
       p < q =>
         \/ DigitValue(shown[p].timestamp) > DigitValue(shown[q].timestamp)
         \/ /\ shown[p].timestamp = shown[q].timestamp
            /\ ChainPos(shown[p]) < ChainPos(shown[q])

\* a read request leaves the store as it is, and what it reports on success
\* is the record's
ReadsOnly ==
  ReadStep =>
    /\ files' = files
    /\ view'.status = 200 =>
         /\ view'.total = Len(Load(files[device_file(view'.key)]).blocks)
         /\ view'.op = "dashboard" =>
              NewestFirst(view'.violations,
                          Load(files[device_file(view'.key)]).blocks)

\* C30: dashboard, stats and verify requests never create, modify or delete
\* a DeviceRecord, and the dashboard reports total_violations equal to the
\* number of stored blocks, with the violations ordered by timestamp
\* descending and those of equal timestamp in chain order.
C30_ReadOnly == [][ReadsOnly]_vars

\* the dashboard has shown a stored ledger of two blocks recorded at the same
\* time, in the order of the chain
C30_Witness ==
  /\ view.op = "dashboard" /\ view.key = "K1" /\ view.status = 200
  /\ view.total = 2
  /\ files[device_file("K1")] # NoFile
  /\ Len(Load(files[device_file("K1")]).blocks) = 2
  /\ view.violations[1].timestamp = view.violations[2].timestamp
  /\ ChainPos(view.violations[1]) = 1
  /\ ChainPos(view.violations[2]) = 2
=============================================================================
